---------------------------- MODULE Spec2Model ----------------------------
(***************************************************************************)
(* PowerShell To Go (app.js): the virtual filesystem, the path resolver,   *)
(* the expression evaluator and the command executor.                      *)
(*                                                                         *)
(* A JavaScript string is a TLA+ string; TLC computes Len, \o, SubSeq,     *)
(* Head and Tail on strings, so slice, startsWith, lastIndexOf, split and  *)
(* the regular-expression replacements of the source are computed          *)
(* character by character.  A value that is not a string (undefined, null, *)
(* true, a thrown exception) is written as a '#'-prefixed word that no     *)
(* string of the program is equal to.                                      *)
(***************************************************************************)
EXTENDS Integers, Sequences, FiniteSets, TLC

VARIABLES
    vfs,        \* app.js:30   the store: normalized path -> node
    cwd,        \* app.js:16   state.cwd
    variables,  \* app.js:17   state.variables
    history,    \* app.js:18   state.history
    clock,      \* the value new Date() would give now
    last,       \* the last operation performed: its inputs, the state before it, its outcome
    prev,       \* the operation performed before `last`
    run,        \* runInput / executeCommand in progress: the line, the position, the calls made
    nops,       \* how many operations have been performed
    storage,    \* localStorage: the blobs under the three keys, and whether a write throws
    settings    \* state.theme and state.fontSize

vars == <<vfs, cwd, variables, history, clock, last, prev, run, nops, storage, settings>>

---------------------------------------------------------------------------
(* Values that are not strings *)

UNDEFINED   == "#undefined"
NULL        == "#null"
JSTRUE      == "#true"         \* the boolean true (the value of a switch parameter)
TypeError   == "#TypeError"    \* thrown by the engine: a method of a non-string, a call of a non-function
SyntaxError == "#SyntaxError"  \* thrown by new RegExp on a malformed pattern

NonStrings  == {UNDEFINED, NULL, JSTRUE, TypeError, SyntaxError}
IsString(v) == v \notin NonStrings
IsNullish(v) == v \in {UNDEFINED, NULL}

BS == "\\"

\* U+00DF LATIN SMALL LETTER SHARP S, the one character of the model whose
\* upper case is two characters.  It is written with an ASCII stand-in so
\* that the module reads the same under every file encoding.
SHARP_S == "^"

---------------------------------------------------------------------------
(* String primitives of the engine *)

Char(s, i) == SubSeq(s, i, i)
Last(s)    == SubSeq(s, Len(s), Len(s))
Front(s)   == SubSeq(s, 1, Len(s) - 1)

\* s.startsWith(t)
StartsWith(s, t) == Len(t) <= Len(s) /\ SubSeq(s, 1, Len(t)) = t

\* s.endsWith(t)
EndsWith(s, t) == Len(t) <= Len(s) /\ SubSeq(s, Len(s) - Len(t) + 1, Len(s)) = t

\* s.includes(t)
Includes(s, t) == \E i \in 1..(Len(s) - Len(t) + 1) : SubSeq(s, i, i + Len(t) - 1) = t

\* s.lastIndexOf(c) as a 0-based index, -1 when c does not occur
LastIndexOf(s, c) ==
    LET hits == {i \in 1..Len(s) : Char(s, i) = c}
    IN  IF hits = {} THEN -1 ELSE (CHOOSE i \in hits : \A j \in hits : j <= i) - 1

\* s.slice(0, n) for n >= -1 (slice(0, -1) drops the last character)
SliceTo(s, n) == IF n < 0 THEN SubSeq(s, 1, Len(s) + n) ELSE SubSeq(s, 1, n)

LowerLetters == "abcdefghijklmnopqrstuvwxyz"
UpperLetters == "ABCDEFGHIJKLMNOPQRSTUVWXYZ"
LowerSet == {Char(LowerLetters, i) : i \in 1..Len(LowerLetters)}
UpperSet == {Char(UpperLetters, i) : i \in 1..Len(UpperLetters)}
UpperOf  == [c \in LowerSet |->
                Char(UpperLetters, CHOOSE i \in 1..Len(LowerLetters) : Char(LowerLetters, i) = c)]
LowerOf  == [c \in UpperSet |->
                Char(LowerLetters, CHOOSE i \in 1..Len(UpperLetters) : Char(UpperLetters, i) = c)]

IsAsciiLetter(c) == c \in LowerSet \/ c \in UpperSet
IsDigit(c) == c \in {"0", "1", "2", "3", "4", "5", "6", "7", "8", "9"}

\* c.toUpperCase() for a one-character string c.  The result is a string:
\* the Unicode special casing maps U+00DF to the two letters "SS".
ToUpperCase(c) ==
    IF c = SHARP_S THEN "SS"
    ELSE IF c \in LowerSet THEN UpperOf[c] ELSE c

\* c.toLowerCase() for a one-character string
ToLowerChar(c) == IF c \in UpperSet THEN LowerOf[c] ELSE c

\* s.toLowerCase()
RECURSIVE ToLowerCase(_)
ToLowerCase(s) == IF s = "" THEN "" ELSE ToLowerChar(Head(s)) \o ToLowerCase(Tail(s))

\* s.trim(), the only white space of the model being the space
RECURSIVE TrimStart(_)
TrimStart(s) == IF s # "" /\ Head(s) = " " THEN TrimStart(Tail(s)) ELSE s
RECURSIVE TrimEnd(_)
TrimEnd(s) == IF s # "" /\ Last(s) = " " THEN TrimEnd(Front(s)) ELSE s
Trim(s) == TrimEnd(TrimStart(s))

\* s.replace(/^["']|["']$/g, ''): one quote character off the front, one off the end
StripQuotes(s) ==
    LET a == IF s # "" /\ Head(s) \in {"\"", "'"} THEN Tail(s) ELSE s
    IN  IF a # "" /\ Last(a) \in {"\"", "'"} THEN Front(a) ELSE a

\* s.split(/[/\\]/), a sequence of strings
RECURSIVE SplitPath(_)
SplitPath(s) ==
    LET seps == {i \in 1..Len(s) : Char(s, i) \in {"/", BS}}
    IN  IF seps = {} THEN <<s>>
        ELSE LET i == CHOOSE k \in seps : \A j \in seps : k <= j
             IN  <<SubSeq(s, 1, i - 1)>> \o SplitPath(SubSeq(s, i + 1, Len(s)))

---------------------------------------------------------------------------
(* Path resolver (app.js:74-104) *)

\* p.replace(/\//g, '\\')
RECURSIVE SlashesToBackslashes(_)
SlashesToBackslashes(p) ==
    IF p = "" THEN ""
    ELSE (IF Head(p) = "/" THEN BS ELSE Head(p)) \o SlashesToBackslashes(Tail(p))

\* p.replace(/\\+/g, '\\'): of each run of backslashes one stays
RECURSIVE CollapseBackslashes(_)
CollapseBackslashes(p) ==
    IF Len(p) < 2 THEN p
    ELSE IF Char(p, 1) = BS /\ Char(p, 2) = BS THEN CollapseBackslashes(Tail(p))
         ELSE Head(p) \o CollapseBackslashes(Tail(p))

normPath(p) ==
    IF p = "" \/ IsNullish(p) THEN ""
    ELSE LET a == CollapseBackslashes(SlashesToBackslashes(p))
             b == IF EndsWith(a, BS) /\ Len(a) > 3 THEN Front(a) ELSE a
         IN  IF Len(b) >= 2 /\ Char(b, 2) = ":" THEN ToUpperCase(Head(b)) \o Tail(b) ELSE b

\* /^[A-Za-z]:/.test(p)
IsAbsolute(p) == Len(p) >= 2 /\ IsAsciiLetter(Head(p)) /\ Char(p, 2) = ":"

\* the loop of resolvePath with the test idx > 2 left out: '..' always cuts at
\* the last separator
RECURSIVE WalkParts_Unguarded(_, _)
WalkParts_Unguarded(base, parts) ==
    IF parts = <<>> THEN base
    ELSE LET part == Head(parts)
             idx  == LastIndexOf(base, BS)
             next == IF part = "" \/ part = "." THEN base
                     ELSE IF part = ".." THEN SliceTo(base, idx)
                     ELSE base \o BS \o part
         IN  WalkParts_Unguarded(next, Tail(parts))

\* the loop of resolvePath over the parts of a relative path (app.js:94-102)
RECURSIVE WalkParts(_, _)
WalkParts(base, parts) ==
    IF parts = <<>> THEN base
    ELSE LET part == Head(parts)
             idx  == LastIndexOf(base, BS)
             next == IF part = "" \/ part = "." THEN base
                     ELSE IF part = ".."
                          THEN (IF idx > 2 THEN SliceTo(base, idx) ELSE base)
                          ELSE base \o BS \o part
         IN  WalkParts(next, Tail(parts))

\* resolvePath(p) with state.cwd = c.  A value that is neither falsy nor a
\* string (the `true` of a switch parameter) has no trim method: TypeError.
resolvePath(p, c) ==
    IF p = "" \/ IsNullish(p) \/ p = "." THEN normPath(c)
    ELSE IF ~IsString(p) THEN TypeError
    ELSE LET q == StripQuotes(Trim(p))
         IN  IF IsAbsolute(q) THEN normPath(q)
             ELSE normPath(WalkParts(c, SplitPath(q)))

---------------------------------------------------------------------------
(* Virtual filesystem (app.js:28-171) *)

\* a node of the store (app.js:29)
DirNode(created, modified) == [type |-> "dir", created |-> created, modified |-> modified]
FileNode(content, created, modified) ==
    [type |-> "file", content |-> content, created |-> created, modified |-> modified]

\* the directories of the default store (app.js:38-51)
DefaultDirs ==
    {"C:", "C:\\Windows", "C:\\Windows\\System32", "C:\\Program Files",
     "C:\\Program Files (x86)", "C:\\Users", "C:\\Users\\PSUser",
     "C:\\Users\\PSUser\\Desktop", "C:\\Users\\PSUser\\Documents",
     "C:\\Users\\PSUser\\Downloads", "C:\\Users\\PSUser\\Pictures", "C:\\Temp"}

\* The files of the default store (app.js:54-63)
DefaultFiles ==
    ("C:\\Users\\PSUser\\Desktop\\readme.txt"  :>
        "Welcome to PowerShell To Go!\r\nType Get-Help to see available commands.\r\nUse Tab for auto-completion.\r\nUse Up/Down arrows for command history.") @@
    ("C:\\Users\\PSUser\\Documents\\notes.txt" :>
        "My PowerShell notes\r\n-------------------\r\nGet-ChildItem  - list directory contents\r\nSet-Location   - change directory\r\nGet-Content    - read a file\r\nSet-Content    - write to a file") @@
    ("C:\\Users\\PSUser\\Desktop\\hello.ps1"   :>
        "Write-Host \"Hello from PowerShell To Go!\" -ForegroundColor Cyan\r\nGet-Date") @@
    ("C:\\Temp\\sample.json"                   :>
        "{\r\n  \"name\": \"PowerShell To Go\",\r\n  \"version\": \"1.0\",\r\n  \"awesome\": true\r\n}")

\* the keys initFS writes (app.js:52, 64)
DefaultKeys == {normPath(d) : d \in DefaultDirs} \cup {normPath(f) : f \in DOMAIN DefaultFiles}

initFS(now) ==
    [k \in DefaultKeys |->
        IF k \in DefaultDirs THEN DirNode(now, now) ELSE FileNode(DefaultFiles[k], now, now)]

DefaultCwd == "C:\\Users\\PSUser\\Desktop"
HomeDir    == "C:\\Users\\PSUser"

\* vfs[k] = node
Put(fs, k, node) == [x \in DOMAIN fs \cup {k} |-> IF x = k THEN node ELSE fs[x]]

\* delete vfs[k] for every k of ks
Without(fs, ks) == [x \in DOMAIN fs \ ks |-> fs[x]]

fsExists(fs, p) == normPath(p) \in DOMAIN fs
fsIsDir(fs, p)  == normPath(p) \in DOMAIN fs /\ fs[normPath(p)].type = "dir"
fsIsFile(fs, p) == normPath(p) \in DOMAIN fs /\ fs[normPath(p)].type = "file"
fsGetContent(fs, p) == IF fsIsFile(fs, p) THEN fs[normPath(p)].content ELSE ""

\* the keys of the direct children of dir
fsListDir(fs, d) ==
    LET dir    == normPath(d)
        prefix == IF EndsWith(dir, BS) THEN dir ELSE dir \o BS
    IN  {k \in DOMAIN fs :
            /\ StartsWith(k, prefix)
            /\ Len(k) > Len(prefix)
            /\ \A i \in (Len(prefix) + 1)..Len(k) : Char(k, i) # BS}

\* each mutator gives the store after the call and the value returned
fsMkdir(fs, path, now) ==
    LET p == normPath(path)
    IN  IF fsExists(fs, p) THEN [fs |-> fs, ret |-> FALSE]
        ELSE [fs |-> Put(fs, p, DirNode(now, now)), ret |-> TRUE]

\* fsWriteFile whose append branch overwrites instead of concatenating
fsWriteFile_AppendOverwrites(fs, path, content, append, now) ==
    LET p == normPath(path)
    IN  Put(fs, p, FileNode(content, IF p \in DOMAIN fs THEN fs[p].created ELSE now, now))

fsWriteFile(fs, path, content, append, now) ==
    LET p == normPath(path)
    IN  IF append /\ fsIsFile(fs, p)
        THEN Put(fs, p, [fs[p] EXCEPT !.content = @ \o content, !.modified = now])
        ELSE Put(fs, p, FileNode(IF IsNullish(content) THEN "" ELSE content,
                                 IF p \in DOMAIN fs THEN fs[p].created ELSE now,
                                 now))

\* fsDelete whose prefix lacks the separator
fsDelete_BarePrefix(fs, path) ==
    LET p == normPath(path)
    IN  IF ~fsExists(fs, p) THEN [fs |-> fs, ret |-> FALSE]
        ELSE IF fsIsDir(fs, p)
             THEN [fs |-> Without(fs, {k \in DOMAIN fs : StartsWith(k, p)}), ret |-> TRUE]
             ELSE [fs |-> Without(fs, {p}), ret |-> TRUE]

fsDelete(fs, path) ==
    LET p == normPath(path)
    IN  IF ~fsExists(fs, p) THEN [fs |-> fs, ret |-> FALSE]
        ELSE IF fsIsDir(fs, p)
             THEN LET prefix == p \o BS
                  IN  [fs  |-> Without(fs, {k \in DOMAIN fs : k = p \/ StartsWith(k, prefix)}),
                       ret |-> TRUE]
             ELSE [fs |-> Without(fs, {p}), ret |-> TRUE]

\* src.split('\\').pop()
BaseName(src) == SubSeq(src, LastIndexOf(src, BS) + 2, Len(src))

\* fsCopy that never looks whether the destination is a directory
fsCopy_NoDirDest(fs, source, dest, now) ==
    LET src == normPath(source)
        dst == normPath(dest)
    IN  IF fsIsFile(fs, src)
        THEN [fs |-> Put(fs, dst, [fs[src] EXCEPT !.modified = now]), ret |-> TRUE]
        ELSE [fs |-> fs, ret |-> FALSE]

fsCopy(fs, source, dest, now) ==
    LET src == normPath(source)
        d0  == normPath(dest)
    IN  IF ~fsExists(fs, src) THEN [fs |-> fs, ret |-> FALSE]
        ELSE LET dst == IF fsIsDir(fs, d0) THEN d0 \o BS \o BaseName(src) ELSE d0
             IN  IF fsIsFile(fs, src)
                 THEN [fs |-> Put(fs, dst, [fs[src] EXCEPT !.modified = now]), ret |-> TRUE]
                 ELSE [fs |-> fs, ret |-> FALSE]

\* fsMove that deletes the source whatever fsCopy returned
fsMove_AlwaysDeletes(fs, source, dest, now) ==
    LET c == fsCopy(fs, source, dest, now)
    IN  [fs |-> fsDelete(c.fs, source).fs, ret |-> c.ret]

fsMove(fs, source, dest, now) ==
    LET c == fsCopy(fs, source, dest, now)
    IN  IF ~c.ret THEN [fs |-> fs, ret |-> FALSE]
        ELSE [fs |-> fsDelete(c.fs, source).fs, ret |-> TRUE]

---------------------------------------------------------------------------
(* Expression evaluator: the comparison of evalExpression (app.js:406-425)  *)

\* Number(s) for the operands of the model: the empty string is 0, a string of
\* decimal digits with an optional '-' is its value, every other operand the
\* model uses (letters, glob and pattern characters) is NaN.
RECURSIVE DigitsValue(_)
DigitsValue(s) ==
    IF s = "" THEN 0
    ELSE 10 * DigitsValue(Front(s)) + (CHOOSE d \in 0..9 : Char("0123456789", d + 1) = Last(s))

IsDigits(s) == s # "" /\ \A i \in 1..Len(s) : IsDigit(Char(s, i))

Number(s) ==
    LET t == Trim(s)
    IN  IF t = "" THEN [nan |-> FALSE, v |-> 0]
        ELSE IF IsDigits(t) THEN [nan |-> FALSE, v |-> DigitsValue(t)]
        ELSE IF Head(t) = "-" /\ IsDigits(Tail(t)) THEN [nan |-> FALSE, v |-> 0 - DigitsValue(Tail(t))]
        ELSE [nan |-> TRUE, v |-> 0]

\* a < b, a <= b on numbers: false when either is NaN
NumLess(a, b)   == ~a.nan /\ ~b.nan /\ a.v < b.v
NumLessEq(a, b) == ~a.nan /\ ~b.nan /\ a.v <= b.v

\* String(b) for a boolean b
StringOfBoolean(b) == IF b THEN "true" ELSE "false"

\* rv.replace(/\*/g, '.*').replace(/\?/g, '.')
RECURSIVE GlobToPattern(_)
GlobToPattern(g) ==
    IF g = "" THEN ""
    ELSE (IF Head(g) = "*" THEN ".*" ELSE IF Head(g) = "?" THEN "." ELSE Head(g))
            \o GlobToPattern(Tail(g))

\* new RegExp(source, 'i') for a source made of letters, digits, '.', the
\* quantifiers '*', '+', '?' (each may be followed by the lazy mark '?'), and
\* parentheses: [ok, atoms] with the sequence of its atoms [c, q], q one of
\* "1", "*", "+", "?"; ok is FALSE (the constructor throws SyntaxError) for a
\* quantifier with nothing to repeat and for a parenthesis, which the sources
\* of the model never balance.
Quantifiers == {"*", "+", "?"}
BadPattern  == [ok |-> FALSE, atoms |-> <<>>]

RECURSIVE RegExp(_)
RegExp(src) ==
    IF src = "" THEN [ok |-> TRUE, atoms |-> <<>>]
    ELSE IF Head(src) \in Quantifiers \cup {"(", ")"} THEN BadPattern
    ELSE LET q    == IF Len(src) >= 2 /\ Char(src, 2) \in Quantifiers THEN Char(src, 2) ELSE "1"
             used == IF q = "1" THEN 1
                     ELSE IF Len(src) >= 3 /\ Char(src, 3) = "?" THEN 3 ELSE 2
             rest == RegExp(SubSeq(src, used + 1, Len(src)))
         IN  IF ~rest.ok THEN BadPattern
             ELSE [ok |-> TRUE, atoms |-> <<[c |-> Head(src), q |-> q]>> \o rest.atoms]

\* one atom against one character, ignoring case
AtomMatches(atom, ch) == atom.c = "." \/ ToLowerChar(atom.c) = ToLowerChar(ch)

\* the positions (1 + number of characters consumed) at which atoms i.. can
\* stop when they start at position pos of s
RECURSIVE MatchEnds(_, _, _, _)
MatchEnds(atoms, i, s, pos) ==
    IF i > Len(atoms) THEN {pos}
    ELSE LET a    == atoms[i]
             one  == IF pos <= Len(s) /\ AtomMatches(a, Char(s, pos))
                     THEN MatchEnds(atoms, i + 1, s, pos + 1) ELSE {}
             more == IF pos <= Len(s) /\ AtomMatches(a, Char(s, pos))
                     THEN MatchEnds(atoms, i, s, pos + 1) ELSE {}
             none == MatchEnds(atoms, i + 1, s, pos)
         IN  CASE a.q = "1" -> one
               [] a.q = "?" -> one \cup none
               [] a.q = "*" -> more \cup none
               [] a.q = "+" -> one \cup (IF pos <= Len(s) /\ AtomMatches(a, Char(s, pos))
                                         THEN MatchEnds(atoms, i, s, pos + 1) \ {pos + 1} ELSE {})

\* new RegExp('^' + source + '$', 'i').test(s)
TestWhole(atoms, s) == (Len(s) + 1) \in MatchEnds(atoms, 1, s, 1)

\* new RegExp(source, 'i').test(s)
TestSearch(atoms, s) == \E start \in 1..(Len(s) + 1) : MatchEnds(atoms, 1, s, start) # {}

\* the operators in the order of the alternation (app.js:407)
CmpOps == <<"-eq", "-ne", "-lt", "-gt", "-le", "-ge", "-like", "-notlike", "-match", "-contains">>

\* expr.match(/^(.+?)\s*(-eq|...|-contains)\s*(.+)$/i) with the left group n
\* characters long: the operator found, or "" when there is no match
OpAfter(expr, n) ==
    LET rest == TrimStart(SubSeq(expr, n + 1, Len(expr)))
        hits == {i \in 1..Len(CmpOps) :
                    /\ Len(rest) > Len(CmpOps[i])
                    /\ ToLowerCase(SubSeq(rest, 1, Len(CmpOps[i]))) = CmpOps[i]}
    IN  IF hits = {} THEN ""
        ELSE CmpOps[CHOOSE i \in hits : \A j \in hits : i <= j]

\* the groups [l, op, r] of the match, the left group as short as can be; op = "" for no match
cmpMatch(expr) ==
    LET lens == {n \in 1..Len(expr) : OpAfter(expr, n) # ""}
    IN  IF lens = {} THEN [l |-> "", op |-> "", r |-> ""]
        ELSE LET n    == CHOOSE k \in lens : \A j \in lens : k <= j
                 op   == OpAfter(expr, n)
                 rest == TrimStart(SubSeq(expr, n + 1, Len(expr)))
                 tail == SubSeq(rest, Len(op) + 1, Len(rest))
             IN  [l |-> SubSeq(expr, 1, n), op |-> op,
                  r |-> IF TrimStart(tail) = "" THEN " " ELSE TrimStart(tail)]

\* the switch of evalExpression (app.js:408-424) on the groups m of the match
compared(expr, m) ==
    LET lv == StripQuotes(Trim(m.l))
        rv == StripQuotes(Trim(m.r))
        like  == RegExp(GlobToPattern(rv))
        match == RegExp(rv)
    IN  CASE m.op = ""          -> expr
          [] m.op = "-eq"       -> StringOfBoolean(lv = rv)
          [] m.op = "-ne"       -> StringOfBoolean(lv # rv)
          [] m.op = "-lt"       -> StringOfBoolean(NumLess(Number(lv), Number(rv)))
          [] m.op = "-gt"       -> StringOfBoolean(NumLess(Number(rv), Number(lv)))
          [] m.op = "-le"       -> StringOfBoolean(NumLessEq(Number(lv), Number(rv)))
          [] m.op = "-ge"       -> StringOfBoolean(NumLessEq(Number(rv), Number(lv)))
          [] m.op = "-like"     -> IF ~like.ok THEN SyntaxError
                                   ELSE StringOfBoolean(TestWhole(like.atoms, lv))
          [] m.op = "-notlike"  -> IF ~like.ok THEN SyntaxError
                                   ELSE StringOfBoolean(~TestWhole(like.atoms, lv))
          [] m.op = "-match"    -> IF ~match.ok THEN SyntaxError
                                   ELSE StringOfBoolean(TestSearch(match.atoms, lv))
          [] m.op = "-contains" -> StringOfBoolean(Includes(lv, rv))

\* The string evalExpression returns for an expanded text that is not
\* arithmetic (app.js:407-425): the comparison's result, SyntaxError when the
\* right operand is no pattern, the text itself when it is no comparison.
compareExpression(expr) == compared(expr, cmpMatch(expr))

---------------------------------------------------------------------------
(* Bounds *)

MaxOps   == 2   \* filesystem calls performed in one behaviour
MaxCmds  == 2   \* commands run in one session
MaxClock == 1   \* the clock takes the values 0..MaxClock

---------------------------------------------------------------------------
(* The state after construction (app.js:15-30) and after init (app.js:1590) *)

NoOp  == [op |-> "none"]
\* localStorage (app.js:9-11).  A blob is missing (getItem gives null), a text
\* JSON.parse rejects, or the text JSON.stringify made of a value, which
\* JSON.parse turns back into that value.
Missing == [kind |-> "missing"]
Garbage == [kind |-> "garbage"]
Json(v) == [kind |-> "json", value |-> v]

\* localStorage.setItem(key, JSON.stringify(v)): throws when the store takes
\* no more (the quota is used up, or the browser refuses storage)
setItem(st, key, v) ==
    IF st.full THEN [threw |-> TRUE, st |-> st]
    ELSE [threw |-> FALSE, st |-> [st EXCEPT ![key] = Json(v)]]

\* saveFS (app.js:70-72): the exception is caught
saveFS(st, fs) == setItem(st, "pstogo_fs", fs).st

\* the store of a session that began with no blob and saved the store fs
Stored(fs) ==
    [full |-> FALSE, pstogo_fs |-> Json(fs), pstogo_history |-> Missing,
     pstogo_settings |-> Missing]

\* state.theme and state.fontSize as the state literal gives them (app.js:20-21)
DefaultSettings == [theme |-> "dark", fontSize |-> 13]

Idle  == [pc |-> "idle", line |-> "", stmts |-> <<>>, done |-> <<>>]
NoVariables == [n \in {} |-> ""]

InitState ==
    /\ vfs = initFS(0)
    /\ cwd = DefaultCwd
    /\ variables = NoVariables
    /\ history = <<>>
    /\ clock = 0
    /\ last = NoOp
    /\ prev = NoOp
    /\ run = Idle
    /\ nops = 0
    /\ storage = Stored(initFS(0))
    /\ settings = DefaultSettings

\* time passes between two operations
Tick ==
    /\ clock < MaxClock
    /\ clock' = clock + 1
    /\ UNCHANGED <<vfs, cwd, variables, history, last, prev, run, nops, storage, settings>>

---------------------------------------------------------------------------
(* The filesystem functions called one after another on the store.  The     *)
(* paths are those the commands pass, results of resolvePath, and one path  *)
(* as the user may type it.                                                 *)

FsPaths    == {"c:/Temp/", "C:\\Temp\\sample.json", "C:\\Temp\\new.txt"}
FsDeleted  == FsPaths \cup {"C:\\Program Files"}
FsWritten  == {"x"}     \* texts given to an overwriting fsWriteFile
FsAppended == {"yz"}    \* texts given to an appending fsWriteFile

\* The store the calls start from: the default store after Remove-Item
\* -Recurse of C:\Windows and of C:\Users and a copy of sample.json into
\* C:\Program Files, which leaves a directory with a descendant next to a
\* sibling whose name begins with its own.
SmallStore ==
    LET full == initFS(0)
        kept == {"C:", "C:\\Temp", "C:\\Temp\\sample.json", "C:\\Program Files",
                 "C:\\Program Files (x86)"}
    IN  Put([k \in kept |-> full[k]], "C:\\Program Files\\sample.json",
            full["C:\\Temp\\sample.json"])

InitFsCalls ==
    /\ vfs = SmallStore
    /\ cwd = "C:"
    /\ variables = NoVariables
    /\ history = <<>>
    /\ clock = 0
    /\ last = NoOp
    /\ prev = NoOp
    /\ run = Idle
    /\ nops = 0
    /\ storage = Stored(SmallStore)
    /\ settings = DefaultSettings

CanPerform == nops < MaxOps

Performed(rec) ==
    /\ nops' = nops + 1
    /\ last' = rec
    /\ prev' = [op |-> last.op, p |-> IF last.op = "none" THEN "" ELSE last.p,
                content |-> IF last.op = "fsWriteFile" THEN last.content ELSE "",
                append  |-> IF last.op = "fsWriteFile" THEN last.append ELSE FALSE]
    /\ storage' = saveFS(storage, vfs')
    /\ UNCHANGED <<cwd, variables, history, clock, run, settings>>

CallMkdir ==
    /\ CanPerform
    /\ \E p \in FsPaths :
        LET r == fsMkdir(vfs, p, clock)
        IN  /\ vfs' = r.fs
            /\ Performed([op |-> "fsMkdir", p |-> p, pre |-> vfs, now |-> clock, ret |-> r.ret])

CallWriteFile ==
    /\ CanPerform
    /\ \E p \in FsPaths, append \in BOOLEAN :
      \E x \in IF append THEN FsAppended ELSE FsWritten :
        /\ vfs' = fsWriteFile(vfs, p, x, append, clock)
        /\ Performed([op |-> "fsWriteFile", p |-> p, content |-> x, append |-> append,
                      pre |-> vfs, now |-> clock])

CallDelete ==
    /\ CanPerform
    /\ \E p \in FsDeleted :
        LET r == fsDelete(vfs, p)
        IN  /\ vfs' = r.fs
            /\ Performed([op |-> "fsDelete", p |-> p, pre |-> vfs, now |-> clock, ret |-> r.ret])

CallCopy ==
    /\ CanPerform
    /\ \E src \in FsPaths, dst \in FsPaths :
        LET r == fsCopy(vfs, src, dst, clock)
        IN  /\ vfs' = r.fs
            /\ Performed([op |-> "fsCopy", p |-> src, q |-> dst, pre |-> vfs, now |-> clock,
                          ret |-> r.ret])

CallMove ==
    /\ CanPerform
    /\ \E src \in FsPaths, dst \in FsPaths :
        LET r == fsMove(vfs, src, dst, clock)
        IN  /\ vfs' = r.fs
            /\ Performed([op |-> "fsMove", p |-> src, q |-> dst, pre |-> vfs, now |-> clock,
                          ret |-> r.ret])

NextFS == Tick \/ CallMkdir \/ CallWriteFile \/ CallDelete \/ CallCopy \/ CallMove

SpecFS == InitFsCalls /\ [][NextFS]_vars

---------------------------------------------------------------------------
(* Claims about the filesystem functions, stated on the store before the    *)
(* call (last.pre), the arguments and the store after it (vfs).             *)

\* key is path followed by a separator and anything
IsBelow(key, path) ==
    /\ Len(key) > Len(path)
    /\ key = path \o BS \o SubSeq(key, Len(path) + 2, Len(key))

\* C5: after fsWriteFile(p, x) fsGetContent(p) is x, and after fsWriteFile(p, x)
\* followed by fsWriteFile(p, y, append = true) it is x followed by y, whatever
\* the store held at p before.
C5_WriteReadRoundTrip ==
    /\ (last.op = "fsWriteFile" /\ ~last.append)
            => fsGetContent(vfs, last.p) = last.content
    /\ (last.op = "fsWriteFile" /\ last.append
          /\ prev.op = "fsWriteFile" /\ ~prev.append /\ prev.p = last.p)
            => fsGetContent(vfs, last.p) = prev.content \o last.content

\* a write over a directory followed by an append to the same path
C5_Witness ==
    /\ last.op = "fsWriteFile" /\ last.append
    /\ prev.op = "fsWriteFile" /\ ~prev.append /\ prev.p = last.p
    /\ last.p = "c:/Temp/"
    /\ fsGetContent(vfs, last.p) = "xyz"

\* C6: fsDelete(p) on an existing directory removes exactly p and the entries
\* below it and changes no other entry; on an existing file it removes exactly
\* that entry; on a missing path it returns false and changes nothing.
C6_DeleteRemovesExactly ==
    last.op = "fsDelete" =>
        LET p   == normPath(last.p)
            pre == last.pre
        IN  IF p \notin DOMAIN pre
            THEN last.ret = FALSE /\ vfs = pre
            ELSE /\ last.ret = TRUE
                 /\ \A k \in DOMAIN vfs : k \in DOMAIN pre /\ vfs[k] = pre[k]
                 /\ \A k \in DOMAIN pre :
                        k \notin DOMAIN vfs <=>
                            IF pre[p].type = "dir" THEN k = p \/ IsBelow(k, p) ELSE k = p

\* a directory deleted with a descendant, a sibling whose name begins with the
\* directory's name staying in the store
C6_Witness ==
    /\ last.op = "fsDelete" /\ last.p = "C:\\Program Files" /\ last.ret = TRUE
    /\ "C:\\Program Files\\sample.json" \in DOMAIN last.pre
    /\ "C:\\Program Files\\sample.json" \notin DOMAIN vfs
    /\ "C:\\Program Files (x86)" \in DOMAIN vfs

\* C7: fsMove(src, dst) returns false and leaves the store unchanged when src
\* does not exist or is a directory.
C7_MoveFailsWithoutEffect ==
    (/\ last.op = "fsMove"
     /\ \/ normPath(last.p) \notin DOMAIN last.pre
        \/ last.pre[normPath(last.p)].type = "dir")
        => last.ret = FALSE /\ vfs = last.pre

\* a move whose source is a directory holding a file
C7_Witness ==
    /\ last.op = "fsMove" /\ last.p = "c:/Temp/" /\ last.q = "C:\\Temp\\new.txt"
    /\ "C:\\Temp\\sample.json" \in DOMAIN last.pre
    /\ last.pre["C:\\Temp"].type = "dir"
    /\ last.ret = FALSE

\* the entry fsCopy(src, dst) writes: dst, or dst\basename(src) when dst is an
\* existing directory
CopyTarget(pre, src, dst) ==
    IF dst \in DOMAIN pre /\ pre[dst].type = "dir" THEN dst \o BS \o BaseName(src) ELSE dst

\* C8 as stated: a successful fsCopy creates or replaces exactly the entry at the
\* effective destination, a file with the source's content and created stamp
\* and modified = now, and the source entry is unchanged.
C8_AsStated ==
    (last.op = "fsCopy" /\ last.ret = TRUE) =>
        LET pre == last.pre
            src == normPath(last.p)
            dst == CopyTarget(pre, src, normPath(last.q))
        IN  /\ DOMAIN vfs = DOMAIN pre \cup {dst}
            /\ \A k \in DOMAIN pre : k # dst => vfs[k] = pre[k]
            /\ vfs[dst] = FileNode(pre[src].content, pre[src].created, last.now)
            /\ vfs[src] = pre[src]

\* C8 as amended: ... and the source entry is unchanged unless the effective
\* destination is the source itself, whose modified stamp then becomes now.
C8_CopyWritesOneEntry ==
    (last.op = "fsCopy" /\ last.ret = TRUE) =>
        LET pre == last.pre
            src == normPath(last.p)
            dst == CopyTarget(pre, src, normPath(last.q))
        IN  /\ DOMAIN vfs = DOMAIN pre \cup {dst}
            /\ \A k \in DOMAIN pre : k # dst => vfs[k] = pre[k]
            /\ vfs[dst] = FileNode(pre[src].content, pre[src].created, last.now)
            /\ dst # src => vfs[src] = pre[src]
            /\ dst = src => vfs[src] = [pre[src] EXCEPT !.modified = last.now]

\* a file copied into the directory that holds it, later than it was written:
\* the effective destination is the source
C8_Witness ==
    /\ last.op = "fsCopy" /\ last.ret = TRUE
    /\ last.p = "C:\\Temp\\sample.json" /\ last.q = "c:/Temp/"
    /\ last.now > last.pre["C:\\Temp\\sample.json"].modified
    /\ vfs["C:\\Temp\\sample.json"].modified = last.now

---------------------------------------------------------------------------
(* Cmdlets (app.js:494-1146).  A handler reads the operands the named-       *)
(* parameter parser gives it: a string, undefined when the operand was not  *)
(* given, or true when a parameter was given as a switch (app.js:462).      *)
(* It gives the store and the directory after the call, the value returned, *)
(* and how it ended: "ok", "error" (writeError was called) or "threw" (an   *)
(* exception left the handler).                                             *)

OBJECT == "#object"     \* a returned object literal

\* expandVariables (app.js:313-321) on a text that holds no '$' changes nothing;
\* on true it throws, a boolean having no replace method.  The texts the
\* commands below are given hold no '$'.
HasNoDollar(s) == \A i \in 1..Len(s) : Char(s, i) # "$"

Outcome(fs, c, ret, out) == [fs |-> fs, cwd |-> c, ret |-> ret, out |-> out]

\* a Set-Location that does not ask whether the target is a directory
SetLocation_EntersFile(fs, c, a) ==
    LET t0 == IF IsNullish(a) THEN c ELSE a
        t1 == IF t0 = "~" THEN HomeDir ELSE t0
        t2 == IF t1 = "-" THEN c ELSE t1
        resolved == resolvePath(t2, c)
    IN  IF resolved = TypeError THEN Outcome(fs, c, TypeError, "threw")
        ELSE IF ~fsExists(fs, resolved) THEN Outcome(fs, c, NULL, "error")
        ELSE Outcome(fs, resolved, resolved, "ok")

\* Set-Location / cd / sl (app.js:559-569); a is params.path ?? params.literalpath ?? args[0]
SetLocation(fs, c, a) ==
    LET t0 == IF IsNullish(a) THEN c ELSE a
        t1 == IF t0 = "~" THEN HomeDir ELSE t0
        t2 == IF t1 = "-" THEN c ELSE t1
        resolved == resolvePath(t2, c)
    IN  IF resolved = TypeError THEN Outcome(fs, c, TypeError, "threw")
        ELSE IF ~fsExists(fs, resolved) THEN Outcome(fs, c, NULL, "error")
        ELSE IF ~fsIsDir(fs, resolved) THEN Outcome(fs, c, NULL, "error")
        ELSE Outcome(fs, resolved, resolved, "ok")

\* Remove-Item / rm / del / ri (app.js:628-638)
RemoveItem(fs, c, a, recurse) ==
    LET p == resolvePath(a, c)
    IN  IF p = TypeError THEN Outcome(fs, c, TypeError, "threw")
        ELSE IF ~fsExists(fs, p) THEN Outcome(fs, c, NULL, "error")
        ELSE IF fsIsDir(fs, p) /\ ~recurse /\ fsListDir(fs, p) # {}
             THEN Outcome(fs, c, NULL, "error")
        ELSE Outcome(fsDelete(fs, p).fs, c, NULL, "ok")

\* New-Item / ni (app.js:603-617); itemtype is params.itemtype ?? params.type,
\* value is params.value
NewItem(fs, c, a, itemtype, value, now) ==
    LET p == resolvePath(a, c)
    IN  IF p = TypeError THEN Outcome(fs, c, TypeError, "threw")
        ELSE IF itemtype = JSTRUE THEN Outcome(fs, c, TypeError, "threw")
        ELSE LET type == IF IsNullish(itemtype) THEN "file" ELSE ToLowerCase(itemtype)
                 val  == IF IsNullish(value) THEN "" ELSE value
             IN  IF fsExists(fs, p) THEN Outcome(fs, c, NULL, "error")
                 ELSE IF type \in {"directory", "dir"}
                      THEN Outcome(fsMkdir(fs, p, now).fs, c, OBJECT, "ok")
                 ELSE IF val = JSTRUE THEN Outcome(fs, c, TypeError, "threw")
                 ELSE Outcome(fsWriteFile(fs, p, val, FALSE, now), c, OBJECT, "ok")

\* a mkdir that makes the directory it created the current one
Mkdir_EntersDirectory(fs, c, a, now) ==
    LET p == resolvePath(a, c)
    IN  IF fsExists(fs, p) THEN Outcome(fs, c, NULL, "error")
        ELSE Outcome(fsMkdir(fs, p, now).fs, p, OBJECT, "ok")

\* mkdir (app.js:619-625); a is args[0]
Mkdir(fs, c, a, now) ==
    LET p == resolvePath(a, c)
    IN  IF fsExists(fs, p) THEN Outcome(fs, c, NULL, "error")
        ELSE Outcome(fsMkdir(fs, p, now).fs, c, OBJECT, "ok")

\* Set-Content / sc (app.js:656-662); value is params.value ?? args.slice(1).join(' ')
SetContent(fs, c, a, value, now) ==
    LET p == resolvePath(a, c)
    IN  IF p = TypeError \/ value = JSTRUE THEN Outcome(fs, c, TypeError, "threw")
        ELSE Outcome(fsWriteFile(fs, p, value, FALSE, now), c, NULL, "ok")

\* Add-Content / ac (app.js:664-670)
AddContent(fs, c, a, value, now) ==
    LET p == resolvePath(a, c)
    IN  IF p = TypeError \/ value = JSTRUE THEN Outcome(fs, c, TypeError, "threw")
        ELSE Outcome(fsWriteFile(fs, p, "\r\n" \o value, TRUE, now), c, NULL, "ok")

---------------------------------------------------------------------------
(* A session: commands submitted one line at a time to the default store.   *)
(* A line is typed later than the one before it.                            *)

PathOperands == {UNDEFINED, JSTRUE, "..", "readme.txt", "..\\Downloads", "new.txt", "C:",
                 "..\\Downloads\\a\\b"}
TypeOperands == {UNDEFINED, JSTRUE, "Directory"}
TextOperands == {"hi"}

CanRun == nops < MaxCmds

\* the command has run: what it was given, the state before it, how it ended
Ran(name, operands, r) ==
    /\ vfs' = r.fs
    /\ cwd' = r.cwd
    /\ clock' = clock + 1
    /\ nops' = nops + 1
    /\ last' = [op |-> name, a |-> operands[1], b |-> operands[2], pre |-> vfs,
                preCwd |-> cwd, ret |-> r.ret, out |-> r.out]
    /\ prev' = [op |-> last.op]
    /\ storage' = saveFS(storage, r.fs)
    /\ UNCHANGED <<variables, history, run, settings>>

CmdSetLocation ==
    /\ CanRun
    /\ \E a \in PathOperands : Ran("Set-Location", <<a, "">>, SetLocation(vfs, cwd, a))

CmdRemoveItem ==
    /\ CanRun
    /\ \E a \in PathOperands, recurse \in BOOLEAN :
        Ran("Remove-Item", <<a, IF recurse THEN "-Recurse" ELSE "">>,
            RemoveItem(vfs, cwd, a, recurse))

CmdNewItem ==
    /\ CanRun
    /\ \E a \in PathOperands, t \in TypeOperands :
        Ran("New-Item", <<a, t>>, NewItem(vfs, cwd, a, t, UNDEFINED, clock + 1))

CmdMkdir ==
    /\ CanRun
    /\ \E a \in PathOperands \ {JSTRUE} : Ran("mkdir", <<a, "">>, Mkdir(vfs, cwd, a, clock + 1))

CmdSetContent ==
    /\ CanRun
    /\ \E a \in PathOperands, v \in TextOperands :
        /\ HasNoDollar(v)
        /\ Ran("Set-Content", <<a, v>>, SetContent(vfs, cwd, a, v, clock + 1))

CmdAddContent ==
    /\ CanRun
    /\ \E a \in PathOperands, v \in TextOperands :
        /\ HasNoDollar(v)
        /\ Ran("Add-Content", <<a, v>>, AddContent(vfs, cwd, a, v, clock + 1))

\* the btn-reset-fs handler, confirmed (app.js:1490-1500)
ResetFs ==
    /\ CanRun
    /\ vfs' = initFS(clock + 1)
    /\ cwd' = DefaultCwd
    /\ clock' = clock + 1
    /\ nops' = nops + 1
    /\ last' = [op |-> "reset-fs", a |-> "", b |-> "", pre |-> vfs, preCwd |-> cwd,
                ret |-> UNDEFINED, out |-> "ok"]
    /\ prev' = [op |-> last.op]
    /\ storage' = saveFS([storage EXCEPT !.pstogo_fs = Missing], initFS(clock + 1))
    /\ UNCHANGED <<variables, history, run, settings>>

Next ==
    \/ CmdSetLocation \/ CmdRemoveItem \/ CmdNewItem \/ CmdMkdir
    \/ CmdSetContent \/ CmdAddContent \/ ResetFs

Spec == InitState /\ [][Next]_vars

---------------------------------------------------------------------------
(* Claims about a session *)

\* C1: in every reachable state of a session state.cwd is a path of the store
\* whose node is a directory.
C1_CwdIsDirectory == cwd \in DOMAIN vfs /\ vfs[cwd].type = "dir"

\* C9: creating at an occupied path changes nothing: fsMkdir on an existing
\* path returns false and leaves the store unchanged, and New-Item and mkdir
\* on an existing path report an error, return null and leave the store
\* unchanged.
C9_CreateOnOccupiedPath ==
    /\ (last.op = "fsMkdir" /\ normPath(last.p) \in DOMAIN last.pre)
            => last.ret = FALSE /\ vfs = last.pre
    /\ (/\ last.op \in {"New-Item", "mkdir"}
         /\ IsString(resolvePath(last.a, last.preCwd))
         /\ resolvePath(last.a, last.preCwd) \in DOMAIN last.pre)
            => last.out = "error" /\ last.ret = NULL /\ vfs = last.pre

---------------------------------------------------------------------------
(* Parsers of the command line (app.js:429-492, 1328-1345)                  *)

\* s.indexOf(c) as a 0-based index, -1 when c does not occur
IndexOf(s, c) ==
    LET hits == {i \in 1..Len(s) : Char(s, i) = c}
    IN  IF hits = {} THEN -1 ELSE (CHOOSE i \in hits : \A j \in hits : i <= j) - 1

\* xs.filter(Boolean) on an array of strings
FilterBoolean(xs) == SelectSeq(xs, LAMBDA x : x # "")

\* xs.join(' ')
RECURSIVE Join(_)
Join(xs) ==
    IF Len(xs) = 0 THEN ""
    ELSE IF Len(xs) = 1 THEN xs[1]
    ELSE xs[1] \o " " \o Join(Tail(xs))

\* the least index j >= i of s that holds a character of chars, Len(s) + 1
\* when there is none: the scanning loops below append the characters in
\* between to `cur` unchanged, so they take them in one step
NextOf(s, i, chars) ==
    LET hits == {j \in i..Len(s) : Char(s, j) \in chars}
    IN  IF hits = {} THEN Len(s) + 1 ELSE CHOOSE j \in hits : \A k \in hits : j <= k

\* the loop of parseArgs from index i on (app.js:433-443)
RECURSIVE ScanArgs(_, _, _, _, _, _)
ScanArgs(str, i, cur, inSingle, inDouble, args) ==
    LET j    == NextOf(str, i, {"'", "\"", " "})
        word == cur \o SubSeq(str, i, j - 1)
    IN  IF j > Len(str) THEN IF word # "" THEN Append(args, word) ELSE args
        ELSE LET c == Char(str, j)
             IN  IF c = "'" /\ ~inDouble THEN ScanArgs(str, j + 1, word, ~inSingle, inDouble, args)
                 ELSE IF c = "\"" /\ ~inSingle THEN ScanArgs(str, j + 1, word, inSingle, ~inDouble, args)
                 ELSE IF c = " " /\ ~inSingle /\ ~inDouble
                      THEN ScanArgs(str, j + 1, "", inSingle, inDouble,
                                    IF word # "" THEN Append(args, word) ELSE args)
                 ELSE ScanArgs(str, j + 1, word \o c, inSingle, inDouble, args)

\* parseArgs (app.js:429-445): the words of a stage, quotes removed
parseArgs(str) == ScanArgs(str, 1, "", FALSE, FALSE, <<>>)

NoParams == [n \in {} |-> ""]

\* params[name] = val
SetParam(params, name, val) ==
    [n \in DOMAIN params \cup {name} |-> IF n = name THEN val ELSE params[n]]

\* params.name
Param(params, name) == IF name \in DOMAIN params THEN params[name] ELSE UNDEFINED

\* the loop of parseNamedParams from index i on (app.js:452-469)
RECURSIVE ScanParams(_, _, _, _)
ScanParams(args, i, params, positional) ==
    IF i > Len(args) THEN [params |-> params, positional |-> positional]
    ELSE LET a == args[i]
             colonIdx == IndexOf(a, ":")
             takesNext == i + 1 <= Len(args) /\ ~StartsWith(args[i + 1], "-")
         IN  IF ~StartsWith(a, "-") THEN ScanParams(args, i + 1, params, Append(positional, a))
             ELSE IF colonIdx > 0
                  THEN ScanParams(args, i + 1,
                                  SetParam(params, ToLowerCase(SubSeq(a, 2, colonIdx)),
                                           SubSeq(a, colonIdx + 2, Len(a))),
                                  positional)
             ELSE IF takesNext
                  THEN ScanParams(args, i + 2,
                                  SetParam(params, ToLowerCase(Tail(a)), args[i + 1]), positional)
             ELSE ScanParams(args, i + 1, SetParam(params, ToLowerCase(Tail(a)), JSTRUE), positional)

\* parseNamedParams (app.js:448-471)
parseNamedParams(args) == ScanParams(args, 1, NoParams, <<>>)

\* the loop of parsePipeline from index i on (app.js:479-489)
RECURSIVE ScanPipeline(_, _, _, _, _, _)
ScanPipeline(line, i, cur, inSingle, inDouble, segments) ==
    LET j    == NextOf(line, i, {"'", "\"", "|"})
        text == cur \o SubSeq(line, i, j - 1)
    IN  IF j > Len(line) THEN Append(segments, Trim(text))
        ELSE LET c == Char(line, j)
             IN  IF c = "'" /\ ~inDouble
                      THEN ScanPipeline(line, j + 1, text \o c, ~inSingle, inDouble, segments)
                 ELSE IF c = "\"" /\ ~inSingle
                      THEN ScanPipeline(line, j + 1, text \o c, inSingle, ~inDouble, segments)
                 ELSE IF c = "|" /\ ~inSingle /\ ~inDouble
                      THEN ScanPipeline(line, j + 1, "", inSingle, inDouble,
                                        Append(segments, Trim(text)))
                 ELSE ScanPipeline(line, j + 1, text \o c, inSingle, inDouble, segments)

\* parsePipeline (app.js:474-492)
parsePipeline(line) == FilterBoolean(ScanPipeline(line, 1, "", FALSE, FALSE, <<>>))

\* the loop of splitStatements from index i on (app.js:1332-1342)
RECURSIVE ScanStatements(_, _, _, _, _, _, _)
ScanStatements(line, i, cur, inS, inD, depth, stmts) ==
    LET j    == NextOf(line, i, {"'", "\"", "{", "}", ";"})
        text == cur \o SubSeq(line, i, j - 1)
    IN  IF j > Len(line) THEN IF Trim(text) # "" THEN Append(stmts, Trim(text)) ELSE stmts
        ELSE LET c == Char(line, j)
             IN  IF c = "'" /\ ~inD
                      THEN ScanStatements(line, j + 1, text \o c, ~inS, inD, depth, stmts)
                 ELSE IF c = "\"" /\ ~inS
                      THEN ScanStatements(line, j + 1, text \o c, inS, ~inD, depth, stmts)
                 ELSE IF c = "{" /\ ~inS /\ ~inD
                      THEN ScanStatements(line, j + 1, text \o c, inS, inD, depth + 1, stmts)
                 ELSE IF c = "}" /\ ~inS /\ ~inD
                      THEN ScanStatements(line, j + 1, text \o c, inS, inD, depth - 1, stmts)
                 ELSE IF c = ";" /\ ~inS /\ ~inD /\ depth = 0
                      THEN ScanStatements(line, j + 1, "", inS, inD, depth,
                                          Append(stmts, Trim(text)))
                 ELSE ScanStatements(line, j + 1, text \o c, inS, inD, depth, stmts)

\* splitStatements (app.js:1328-1345)
splitStatements(line) == FilterBoolean(ScanStatements(line, 1, "", FALSE, FALSE, 0, <<>>))

---------------------------------------------------------------------------
(* Variable expansion (app.js:313-334) *)

\* state.variables is created as {} : a name that is no own property is looked
\* up in Object.prototype, whose members are functions (and, for __proto__,
\* Object.prototype itself), and the replace callback's result is turned into
\* a string.
PrototypeNames == {"constructor", "__proto__", "toString", "valueOf", "hasOwnProperty"}

PrototypeText(n) ==
    IF n = "__proto__" THEN "[object Object]"
    ELSE IF n = "constructor" THEN "function Object() { [native code] }"
    ELSE "function " \o n \o "() { [native code] }"

\* String(state.variables[n]), UNDEFINED when the property is in neither place
VariableText(vs, n) ==
    IF n \in DOMAIN vs THEN vs[n]
    ELSE IF n \in PrototypeNames THEN PrototypeText(n)
    ELSE UNDEFINED

\* getBuiltinVar (app.js:323-334), c being state.cwd
getBuiltinVar(name, c) ==
    LET n == ToLowerCase(name)
    IN  IF n = "null" THEN ""
        ELSE IF n = "true" THEN "True"
        ELSE IF n = "false" THEN "False"
        ELSE IF n = "psversiontable" THEN "Name:PSToGo Version:1.0"
        ELSE IF n = "env:username" \/ n = "username" THEN "PSUser"
        ELSE IF n = "env:computername" \/ n = "computername" THEN "PSTOGO-PC"
        ELSE IF n = "home" THEN "C:\\Users\\PSUser"
        ELSE IF n = "pwd" THEN c
        ELSE UNDEFINED

IsNameStart(c) == IsAsciiLetter(c) \/ c = "_"      \* [A-Za-z_]
IsWordChar(c)  == IsNameStart(c) \/ IsDigit(c)     \* \w

\* the index after the last character of the \w* run that starts at i
WordEnd(s, i) ==
    LET stops == {j \in i..Len(s) : ~IsWordChar(Char(s, j))}
    IN  IF stops = {} THEN Len(s) + 1 ELSE CHOOSE j \in stops : \A k \in stops : j <= k

\* what the callback of the first replace returns: state.variables[n] ?? ''
BracedValue(vs, n) == IF IsNullish(VariableText(vs, n)) THEN "" ELSE VariableText(vs, n)

\* what the callback of the second replace returns:
\* getBuiltinVar(n) ?? state.variables[n] ?? '$' + n
BareValue(vs, n, c) ==
    IF getBuiltinVar(n, c) # UNDEFINED THEN getBuiltinVar(n, c)
    ELSE IF IsNullish(VariableText(vs, n)) THEN "$" \o n ELSE VariableText(vs, n)

\* str.replace(/\$\{([^}]+)\}/g, ...): each "${", one or more characters other
\* than '}', then '}', from the left; a replacement is not scanned again
RECURSIVE ReplaceBraced(_, _)
ReplaceBraced(str, vs) ==
    LET opens == {i \in 1..(Len(str) - 3) :
                     /\ Char(str, i) = "$"
                     /\ Char(str, i + 1) = "{"
                     /\ Char(str, i + 2) # "}"
                     /\ NextOf(str, i + 2, {"}"}) <= Len(str)}
    IN  IF opens = {} THEN str
        ELSE LET i == CHOOSE x \in opens : \A y \in opens : x <= y
                 j == NextOf(str, i + 2, {"}"})
             IN  SubSeq(str, 1, i - 1) \o BracedValue(vs, SubSeq(str, i + 2, j - 1))
                     \o ReplaceBraced(SubSeq(str, j + 1, Len(str)), vs)

\* .replace(/\$([A-Za-z_]\w*)/g, ...)
RECURSIVE ReplaceBare(_, _, _)
ReplaceBare(str, vs, c) ==
    LET starts == {i \in 1..(Len(str) - 1) :
                      Char(str, i) = "$" /\ IsNameStart(Char(str, i + 1))}
    IN  IF starts = {} THEN str
        ELSE LET i == CHOOSE x \in starts : \A y \in starts : x <= y
                 j == WordEnd(str, i + 1)
             IN  SubSeq(str, 1, i - 1) \o BareValue(vs, SubSeq(str, i + 1, j - 1), c)
                     \o ReplaceBare(SubSeq(str, j, Len(str)), vs, c)

\* expandVariables (app.js:313-321): the second replace works on the result of
\* the first
expandVariables(str, vs, c) == ReplaceBare(ReplaceBraced(str, vs), vs, c)

\* the user variables a session can have defined: none, $foo = v, and
\* $foo = $bar (bar being undefined, the text stays) followed by $bar = x
VariableStores ==
    { NoVariables,
      "foo" :> "v",
      ("foo" :> "$bar") @@ ("bar" :> "x") }

---------------------------------------------------------------------------
(* History (app.js:208-215) *)

HistoryCap == 200

\* addHistory that does not drop the line it is about to push
addHistory_KeepsOld(h, cmd) ==
    IF Trim(cmd) = "" THEN h
    ELSE LET pushed == Append(h, cmd)
         IN  IF Len(pushed) > HistoryCap THEN Tail(pushed) ELSE pushed

addHistory(h, cmd) ==
    IF Trim(cmd) = "" THEN h
    ELSE LET pushed == Append(SelectSeq(h, LAMBDA x : x # cmd), cmd)
         IN  IF Len(pushed) > HistoryCap THEN Tail(pushed) ELSE pushed

---------------------------------------------------------------------------
(* safeArith (app.js:337-396).  A number is NaN or the fraction n/d in      *)
(* lowest terms with d > 0; on the integers and the quotients of the texts  *)
(* below the doubles of the engine decide "is zero" and "is NaN" alike.     *)

NaN == [nan |-> TRUE, n |-> 0, d |-> 1]

Fraction(n, d) ==
    LET RECURSIVE GCD(_, _)
        GCD(a, b) == IF b = 0 THEN a ELSE GCD(b, a % b)
        s == IF d < 0 THEN -1 ELSE 1
        g == GCD(IF n < 0 THEN -n ELSE n, s * d)
    IN  [nan |-> FALSE, n |-> (s * n) \div g, d |-> (s * d) \div g]

\* parseFloat of a run of digits and dots: the digits before the first dot
\* and those between the first and the second
parseFloat(num) ==
    LET dot   == NextOf(num, 1, {"."})
        whole == SubSeq(num, 1, dot - 1)
        frac  == SubSeq(num, dot + 1, NextOf(num, dot + 1, {"."}) - 1)
    IN  IF whole = "" /\ frac = "" THEN NaN
        ELSE Fraction(DigitsValue(whole) * (10 ^ Len(frac)) + DigitsValue(frac), 10 ^ Len(frac))

\* the tokeniser (app.js:339-353): ok is false at an unsupported character
RECURSIVE Tokenize(_, _, _)
Tokenize(expr, i, tokens) ==
    IF i > Len(expr) THEN [ok |-> TRUE, tokens |-> tokens]
    ELSE LET c == Char(expr, i)
         IN  IF c = " " THEN Tokenize(expr, i + 1, tokens)
             ELSE IF IsDigit(c) \/ c = "."
             THEN LET ends == {j \in i..Len(expr) : ~(IsDigit(Char(expr, j)) \/ Char(expr, j) = ".")}
                      e == IF ends = {} THEN Len(expr) + 1
                           ELSE CHOOSE j \in ends : \A k \in ends : j <= k
                  IN  Tokenize(expr, e, Append(tokens,
                          [t |-> "num", v |-> parseFloat(SubSeq(expr, i, e - 1)), c |-> ""]))
             ELSE IF c \in {"+", "-", "*", "/", "%", "(", ")"}
             THEN Tokenize(expr, i + 1, Append(tokens, [t |-> "op", v |-> NaN, c |-> c]))
             ELSE [ok |-> FALSE, tokens |-> tokens]

\* left + right, left - right, left * right, left % right of the engine, and
\* the guarded quotient right !== 0 ? left / right : NaN (app.js:364, 373-375)
Arith_ZeroQuotient(op, left, right) ==
    IF left.nan \/ right.nan THEN NaN
    ELSE CASE op = "+" -> Fraction(left.n * right.d + right.n * left.d, left.d * right.d)
           [] op = "-" -> Fraction(left.n * right.d - right.n * left.d, left.d * right.d)
           [] op = "*" -> Fraction(left.n * right.n, left.d * right.d)
           [] op = "/" -> IF right.n = 0 THEN Fraction(0, 1)
                          ELSE Fraction(left.n * right.d, left.d * right.n)
           [] op = "%" -> IF right.n = 0 THEN NaN
                          ELSE LET num == left.n * right.d
                                   den == left.d * right.n
                                   abs(x) == IF x < 0 THEN -x ELSE x
                                   sgn == IF (num < 0) = (den < 0) THEN 1 ELSE -1
                                   q == sgn * (abs(num) \div abs(den))
                               IN  Fraction(left.n * right.d - q * right.n * left.d,
                                            left.d * right.d)

Arith(op, left, right) ==
    IF left.nan \/ right.nan THEN NaN
    ELSE CASE op = "+" -> Fraction(left.n * right.d + right.n * left.d, left.d * right.d)
           [] op = "-" -> Fraction(left.n * right.d - right.n * left.d, left.d * right.d)
           [] op = "*" -> Fraction(left.n * right.n, left.d * right.d)
           [] op = "/" -> IF right.n = 0 THEN NaN
                          ELSE Fraction(left.n * right.d, left.d * right.n)
           [] op = "%" -> IF right.n = 0 THEN NaN
                          ELSE LET num == left.n * right.d
                                   den == left.d * right.n
                                   abs(x) == IF x < 0 THEN -x ELSE x
                                   sgn == IF (num < 0) = (den < 0) THEN 1 ELSE -1
                                   q == sgn * (abs(num) \div abs(den))
                               IN  Fraction(left.n * right.d - q * right.n * left.d,
                                            left.d * right.d)

\* the operators the loop of parseTerm takes that include those of parseExpr
TermOps_Flat == {"*", "/", "%", "+", "-"}

ExprOps == {"+", "-"}        \* app.js:361
TermOps == {"*", "/", "%"}   \* app.js:370

\* peek() && peek().v is one of ops, pos counting from 1
PeekIs(tokens, pos, ops) == pos <= Len(tokens) /\ tokens[pos].t = "op" /\ tokens[pos].c \in ops

\* parseExpr, parseTerm, parseFactor (app.js:359-393): the value and pos
\* after the call
RECURSIVE parseExpr(_, _), parseTerm(_, _), parseFactor(_, _)
parseExpr(tokens, pos) ==
    LET RECURSIVE While(_)
        While(left) ==
            IF PeekIs(tokens, left.pos, ExprOps)
            THEN LET right == parseTerm(tokens, left.pos + 1)
                 IN  While([v |-> Arith(tokens[left.pos].c, left.v, right.v), pos |-> right.pos])
            ELSE left
    IN  While(parseTerm(tokens, pos))

parseTerm(tokens, pos) ==
    LET RECURSIVE While(_)
        While(left) ==
            IF PeekIs(tokens, left.pos, TermOps)
            THEN LET right == parseFactor(tokens, left.pos + 1)
                 IN  While([v |-> Arith(tokens[left.pos].c, left.v, right.v), pos |-> right.pos])
            ELSE left
    IN  While(parseFactor(tokens, pos))

parseFactor(tokens, pos) ==
    IF pos > Len(tokens) THEN [v |-> NaN, pos |-> pos]
    ELSE IF tokens[pos].t = "num" THEN [v |-> tokens[pos].v, pos |-> pos + 1]
    ELSE IF tokens[pos].c = "("
         THEN LET val == parseExpr(tokens, pos + 1)
              IN  IF PeekIs(tokens, val.pos, {")"}) THEN [val EXCEPT !.pos = @ + 1] ELSE val
    ELSE IF tokens[pos].c = "-"
         THEN LET f == parseFactor(tokens, pos + 1)
              IN  [f EXCEPT !.v = Arith("-", Fraction(0, 1), f.v)]
    ELSE IF tokens[pos].c = "+" THEN parseFactor(tokens, pos + 1)
    ELSE [v |-> NaN, pos |-> pos]

safeArith(expr) ==
    LET scanned == Tokenize(expr, 1, <<>>)
        result  == parseExpr(scanned.tokens, 1)
    IN  IF ~scanned.ok THEN NaN
        ELSE IF result.pos = Len(scanned.tokens) + 1 /\ ~result.v.nan THEN result.v
        ELSE NaN

\* the number has a decimal expansion that ends within six places
IsDecimal(x) == x.nan \/ \E k \in 0..6 : (10 ^ k) % x.d = 0

\* String(n) of a number whose decimal expansion ends: "NaN", the integer,
\* or the integer part, a dot and the places, the last of which is not 0
StringOfNumber(x) ==
    IF x.nan THEN "NaN"
    ELSE IF x.d = 1 THEN ToString(x.n)
    ELSE LET k      == CHOOSE j \in 1..6 : (10 ^ j) % x.d = 0 /\ \A i \in 1..(j - 1) : (10 ^ i) % x.d # 0
             abs    == IF x.n < 0 THEN 0 - x.n ELSE x.n
             scaled == (abs * (10 ^ k)) \div x.d
             places == ToString(scaled % (10 ^ k))
             zeros  == SubSeq("000000", 1, k - Len(places))
         IN  (IF x.n < 0 THEN "-" ELSE "") \o ToString(scaled \div (10 ^ k)) \o "."
                \o zeros \o places

---------------------------------------------------------------------------
(* The command registry (app.js:495-500) and the call of a handler          *)

\* CMDLETS, the own properties reg() gives it, for the commands of the lines
\* below: lower-cased name -> handler
CMDLETS ==
    [n \in {"write-output", "write-host", "echo", "get-location", "pwd", "gl",
            "set-location", "cd", "sl"} |->
        CASE n \in {"write-output", "write-host", "echo"} -> "Write-Output"
          [] n \in {"get-location", "pwd", "gl"}          -> "Get-Location"
          [] n \in {"set-location", "cd", "sl"}           -> "Set-Location"]

\* CMDLETS[cmdName]: CMDLETS is an object literal, so a name it does not own
\* is looked up in Object.prototype, whose all-lower-case properties are
\* constructor (the function Object) and __proto__ (Object.prototype itself)
Lookup(cmdName) ==
    IF cmdName \in DOMAIN CMDLETS THEN CMDLETS[cmdName]
    ELSE IF cmdName = "constructor" THEN "Object"
    ELSE IF cmdName = "__proto__" THEN "Object.prototype"
    ELSE UNDEFINED

\* Write-Output / Write-Host / echo (app.js:503-508).  expandVariables calls
\* replace on its argument: a TypeError on an array, no change to a text
\* without '$'.
WriteOutput(fs, c, args, pipe) ==
    LET input == IF IsNullish(pipe) THEN Join(args) ELSE pipe
    IN  IF input = OBJECT \/ ~IsString(input) THEN Outcome(fs, c, TypeError, "threw")
        ELSE Outcome(fs, c, input, "ok")

\* Get-Location / pwd / gl (app.js:553-556)
GetLocation(fs, c) == Outcome(fs, c, c, "ok")

\* args[0]
FirstArg(args) == IF Len(args) >= 1 THEN args[1] ELSE UNDEFINED

\* a ?? b
Coalesce(a, b) == IF IsNullish(a) THEN b ELSE a

\* fn(allArgs, params, pipeValue) (app.js:1200)
Invoke(fn, args, params, pipe, fs, c) ==
    CASE fn = "Write-Output" -> WriteOutput(fs, c, args, pipe)
      [] fn = "Get-Location" -> GetLocation(fs, c)
      [] fn = "Set-Location" ->
            SetLocation(fs, c, Coalesce(Param(params, "path"),
                                        Coalesce(Param(params, "literalpath"), FirstArg(args))))
      \* Object(allArgs) gives back the array it is handed
      [] fn = "Object" -> Outcome(fs, c, OBJECT, "ok")
      \* Object.prototype is not a function
      [] fn = "Object.prototype" -> Outcome(fs, c, TypeError, "threw")

\* /^[\d(]/.test(line) && /^[\d\s+\-*/%.()]+$/.test(line)  (app.js:1166)
ArithmeticChars == {"0", "1", "2", "3", "4", "5", "6", "7", "8", "9",
                    " ", "+", "-", "*", "/", "%", ".", "(", ")"}
IsArithmeticLine(line) ==
    /\ line # ""
    /\ IsDigit(Head(line)) \/ Head(line) = "("
    /\ \A i \in 1..Len(line) : Char(line, i) \in ArithmeticChars

\* One pass of the pipeline loop that passes its own pipeValue on to no stage
executeStage_DropsPipe(seg0, pipeValue, fs, c, vs) ==
    LET seg     == Trim(expandVariables(seg0, vs, c))
        rawArgs == parseArgs(seg)
        cmdName == ToLowerCase(rawArgs[1])
        parsed  == parseNamedParams(Tail(rawArgs))
        fn      == Lookup(cmdName)
        r       == Invoke(fn, parsed.positional, parsed.params, NULL, fs, c)
        keep    == [kind |-> "continue", pipe |-> pipeValue, fs |-> fs, cwd |-> c,
                    call |-> [name |-> "", pipe |-> NULL, ret |-> NULL]]
        varName == SubSeq(cmdName, 2, Len(cmdName))
        val     == IF IsNullish(VariableText(vs, varName)) THEN getBuiltinVar(varName, c)
                   ELSE VariableText(vs, varName)
    IN  IF seg = "" \/ Len(rawArgs) = 0 THEN keep
        ELSE IF fn = UNDEFINED /\ StartsWith(cmdName, "$") /\ val # UNDEFINED
             THEN [keep EXCEPT !.kind = "read", !.pipe = val]
        ELSE IF fn = UNDEFINED THEN [keep EXCEPT !.kind = "break", !.pipe = NULL]
        ELSE [kind |-> IF r.out = "threw" THEN "throw" ELSE "call",
              pipe |-> r.ret, fs |-> r.fs, cwd |-> r.cwd,
              call |-> [name |-> cmdName, pipe |-> NULL, ret |-> r.ret]]

\* One pass of the pipeline loop of executeCommand (app.js:1176-1201) over the
\* segment seg0: what the loop does next ("continue"; "read" for a variable
\* whose value is written; "break" for the unrecognized-command error; "call"
\* for a handler that returned; "throw" for a call that raised), the new
\* pipeValue, the store and directory after the call, and the call made.
executeStage(seg0, pipeValue, fs, c, vs) ==
    LET seg     == Trim(expandVariables(seg0, vs, c))
        rawArgs == parseArgs(seg)
        cmdName == ToLowerCase(rawArgs[1])
        parsed  == parseNamedParams(Tail(rawArgs))
        fn      == Lookup(cmdName)
        r       == Invoke(fn, parsed.positional, parsed.params, pipeValue, fs, c)
        keep    == [kind |-> "continue", pipe |-> pipeValue, fs |-> fs, cwd |-> c,
                    call |-> [name |-> "", pipe |-> NULL, ret |-> NULL]]
        varName == SubSeq(cmdName, 2, Len(cmdName))
        val     == IF IsNullish(VariableText(vs, varName)) THEN getBuiltinVar(varName, c)
                   ELSE VariableText(vs, varName)
    IN  IF seg = "" \/ Len(rawArgs) = 0 THEN keep
        ELSE IF fn = UNDEFINED /\ StartsWith(cmdName, "$") /\ val # UNDEFINED
             THEN [keep EXCEPT !.kind = "read", !.pipe = val]
        ELSE IF fn = UNDEFINED THEN [keep EXCEPT !.kind = "break", !.pipe = NULL]
        ELSE [kind |-> IF r.out = "threw" THEN "throw" ELSE "call",
              pipe |-> r.ret, fs |-> r.fs, cwd |-> r.cwd,
              call |-> [name |-> cmdName, pipe |-> pipeValue, ret |-> r.ret]]

---------------------------------------------------------------------------
(* A line typed into the prompt of a fresh session and submitted: runInput  *)
(* (app.js:1308-1325) runs executeCommand (app.js:1149-1204) on each of its *)
(* statements, executeCommand runs the stages of the statement.             *)

MaxStages == 3   \* stages in the first statement of the line

StageTexts == {"pwd", "echo hi", "cd ..", "foo", "__proto__", "constructor"}
FollowerTexts == {"", "; echo next", " ;# note"}

RECURSIVE PipelineTexts(_)
PipelineTexts(n) ==
    IF n = 1 THEN StageTexts
    ELSE LET shorter == PipelineTexts(n - 1)
         IN  shorter \cup {p \o " | " \o st : p \in shorter, st \in StageTexts}

LineTexts == {p \o f : p \in PipelineTexts(MaxStages), f \in FollowerTexts}

\* lines with a statement made of the characters of arithmetic
ArithmeticLines == {"2+2", "(2+2)*2", "1/2", "2/0", "7%0", "2+", "(2", "2 3", "()", "1.5.2",
                    "2/0 ; pwd", "pwd ; 2*3", "2+2 | echo"}

\* lines whose statements begin with a variable reference
VariableLines == {"$foo", "$FOO", "$bar", "$home", "$null", "$foo | echo", "pwd ; $foo"}

\* the statement is a pipeline whose first stage is a lone variable reference
\* and whose other stages hold no '$'
IsVariableRead(stmt) ==
    LET segs  == parsePipeline(stmt)
        first == Trim(segs[1])
    IN  /\ Len(segs) >= 1
        /\ Len(first) >= 2
        /\ Char(first, 1) = "$"
        /\ IsNameStart(Char(first, 2))
        /\ WordEnd(first, 2) = Len(first) + 1
        /\ \A i \in 2..Len(segs) : HasNoDollar(segs[i])

\* the line has been typed and not yet submitted
InitExec ==
    /\ vfs = initFS(0)
    /\ cwd = DefaultCwd
    /\ history = <<>>
    /\ clock = 0
    /\ last = NoOp
    /\ prev = NoOp
    /\ nops = 0
    /\ settings = DefaultSettings
    /\ \E full \in BOOLEAN : storage = [Stored(initFS(0)) EXCEPT !.full = full]
    /\ \/ /\ variables = NoVariables
          /\ \E line \in LineTexts \cup ArithmeticLines :
                run = [pc |-> "typed", line |-> line, stmts |-> <<>>, done |-> <<>>]
       \/ \E vs \in VariableStores, line \in VariableLines :
             /\ variables = vs
             /\ run = [pc |-> "typed", line |-> line, stmts |-> <<>>, done |-> <<>>]

\* the record of one statement: its segments, how many of them the loop
\* looked at, the calls it made, whether executeCommand returned or threw,
\* and the value returned
StatementRecord(segs, looked, calls, out, ret) ==
    [segs |-> segs, looked |-> looked, calls |-> calls, out |-> out, ret |-> ret]

\* runInput up to the forEach (app.js:1308-1321)
RunInput ==
    /\ run.pc = "typed"
    /\ LET cmd == Trim(run.line)
       IN  /\ \A i \in 1..Len(splitStatements(cmd)) :
                  HasNoDollar(splitStatements(cmd)[i]) \/ IsVariableRead(splitStatements(cmd)[i])
           /\ IF cmd = ""
              THEN /\ run' = Idle
                   /\ UNCHANGED <<history, storage>>
              ELSE LET saved == setItem(storage, "pstogo_history", addHistory(history, cmd))
                   IN  /\ history' = addHistory(history, cmd)
                       /\ storage' = saved.st
                       \* the exception of setItem (app.js:214) leaves addHistory and runInput
                       /\ run' = IF saved.threw
                                 THEN [pc |-> "idle", line |-> cmd, stmts |-> <<>>, done |-> <<>>]
                                 ELSE [pc |-> "forEach", line |-> cmd,
                                       stmts |-> splitStatements(cmd), done |-> <<>>]
    /\ nops' = nops + 1
    /\ UNCHANGED <<vfs, cwd, variables, clock, last, prev, settings>>

\* executeCommand(c) is entered for the next statement (app.js:1149-1174)
ExecuteCommand ==
    /\ run.pc = "forEach"
    /\ Len(run.done) < Len(run.stmts)
    /\ LET line == Trim(run.stmts[Len(run.done) + 1])
           n    == safeArith(line)
       IN  /\ IsArithmeticLine(line) => IsDecimal(n)
           /\ IF line = "" \/ StartsWith(line, "#")
              THEN run' = [run EXCEPT !.done = Append(@, StatementRecord(<<>>, 0, <<>>, "returned", NULL))]
              \* the arithmetic expression: writeLine(String(n)); return n (app.js:1166-1169)
              ELSE IF IsArithmeticLine(line) /\ ~n.nan
              THEN run' = [run EXCEPT !.done = Append(@,
                              StatementRecord(<<>>, 0, <<>>, "returned", StringOfNumber(n)))]
              ELSE run' = [pc |-> "pipeline", line |-> run.line, stmts |-> run.stmts,
                           done |-> run.done, segs |-> parsePipeline(line), si |-> 1,
                           pipeValue |-> NULL, calls |-> <<>>]
    /\ UNCHANGED <<vfs, cwd, variables, history, clock, last, prev, nops, storage, settings>>

\* one pass of the pipeline loop (app.js:1176-1201); an exception leaves
\* executeCommand, the forEach and runInput
Stage ==
    /\ run.pc = "pipeline"
    /\ run.si <= Len(run.segs)
    /\ LET Pass(st) ==
           LET calls == IF st.kind \in {"call", "throw"} THEN Append(run.calls, st.call)
                        ELSE run.calls
           IN  /\ vfs' = st.fs
               /\ cwd' = st.cwd
               /\ storage' = saveFS(storage, st.fs)
               /\ last' = [op |-> "stage", k |-> Len(run.done) + 1, si |-> run.si,
                           seg |-> run.segs[run.si], kind |-> st.kind, pipe |-> st.pipe]
               /\ CASE st.kind = "continue" ->
                        run' = [run EXCEPT !.si = @ + 1]
                    [] st.kind = "read" ->
                        run' = [run EXCEPT !.si = @ + 1, !.pipeValue = st.pipe]
                    [] st.kind = "call" ->
                        run' = [run EXCEPT !.si = @ + 1, !.pipeValue = st.pipe, !.calls = calls]
                    [] st.kind = "break" ->
                        run' = [pc |-> "forEach", line |-> run.line, stmts |-> run.stmts,
                                done |-> Append(run.done,
                                    StatementRecord(run.segs, run.si, run.calls, "returned", NULL))]
                    [] st.kind = "throw" ->
                        run' = [pc |-> "idle", line |-> run.line, stmts |-> run.stmts,
                                done |-> Append(run.done,
                                    StatementRecord(run.segs, run.si, run.calls, "threw", st.pipe))]
       IN  Pass(executeStage(run.segs[run.si], run.pipeValue, vfs, cwd, variables))
    /\ UNCHANGED <<variables, history, clock, prev, nops, settings>>

\* the loop is over: return pipeValue (app.js:1203)
Return ==
    /\ run.pc = "pipeline"
    /\ run.si > Len(run.segs)
    /\ run' = [pc |-> "forEach", line |-> run.line, stmts |-> run.stmts,
               done |-> Append(run.done,
                   StatementRecord(run.segs, Len(run.segs), run.calls, "returned", run.pipeValue))]
    /\ UNCHANGED <<vfs, cwd, variables, history, clock, last, prev, nops, storage, settings>>

\* the forEach is over: the rest of runInput (app.js:1323-1324)
Finish ==
    /\ run.pc = "forEach"
    /\ Len(run.done) = Len(run.stmts)
    /\ run' = [run EXCEPT !.pc = "idle"]
    /\ UNCHANGED <<vfs, cwd, variables, history, clock, last, prev, nops, storage, settings>>

NextExec == RunInput \/ ExecuteCommand \/ Stage \/ Return \/ Finish

SpecExec == InitExec /\ [][NextExec]_vars

---------------------------------------------------------------------------
(* Claims about the executor *)

\* the statements runInput has run so far, and the one in progress
StatementsRun ==
    IF run.pc = "pipeline"
    THEN Append(run.done, StatementRecord(run.segs, run.si - 1, run.calls, "running", run.pipeValue))
    ELSE run.done

\* the command a segment names, lower-cased; "" when the segment has no word
CommandName(seg) ==
    LET rawArgs == parseArgs(Trim(seg))
    IN  IF Len(rawArgs) = 0 THEN "" ELSE ToLowerCase(rawArgs[1])

\* the names reg() registers
RegisteredNames == DOMAIN CMDLETS

\* the segment names a command that is not registered and is no variable reference
NamesUnregistered(seg) ==
    /\ CommandName(seg) # ""
    /\ CommandName(seg) \notin RegisteredNames
    /\ ~StartsWith(CommandName(seg), "$")

\* C2: when runInput is over, every statement (comments aside) in which the
\* loop came to a stage naming an unregistered command stopped at that stage,
\* returned null, and every statement of the line was run.
C2_UnknownCommandStopsPipeline ==
    (run.pc = "idle" /\ run.line # "") =>
        \A k \in 1..Len(run.stmts) :
            \A i \in 1..Len(parsePipeline(run.stmts[k])) :
                (/\ ~StartsWith(run.stmts[k], "#")
                 /\ NamesUnregistered(parsePipeline(run.stmts[k])[i])
                 /\ \A j \in 1..(i - 1) : ~NamesUnregistered(parsePipeline(run.stmts[k])[j])
                 /\ \A h \in 1..(k - 1) :
                        \A j \in 1..Len(parsePipeline(run.stmts[h])) :
                            ~NamesUnregistered(parsePipeline(run.stmts[h])[j]))
                    => /\ Len(run.done) = Len(run.stmts)
                       /\ run.done[k].out = "returned"
                       /\ run.done[k].ret = NULL
                       /\ run.done[k].looked = i

\* C3: in every statement no stage of which refers to a variable the calls
\* are made in the order of the segments, the first call is handed null, each
\* later call is handed what the call before it returned, and a statement
\* whose stages all name registered commands returns what its last call
\* returned.
C3_PipelineThreadsValues ==
    \A k \in 1..Len(StatementsRun) :
        LET d == StatementsRun[k]
            n == Len(d.calls)
        IN  (\A i \in 1..Len(d.segs) : HasNoDollar(d.segs[i])) =>
            /\ n <= d.looked
            /\ \A i \in 1..n : d.calls[i].name = CommandName(d.segs[i])
            /\ n >= 1 => d.calls[1].pipe = NULL
            /\ \A i \in 2..n : d.calls[i].pipe = d.calls[i - 1].ret
            /\ (/\ d.out = "returned" /\ n >= 1
                /\ \A i \in 1..Len(d.segs) : CommandName(d.segs[i]) \in RegisteredNames)
                    => n = Len(d.segs) /\ d.ret = d.calls[n].ret

\* a statement of three registered stages has returned: the directory cd
\* returned went through echo, and pwd returned the new directory
C3_Witness ==
    /\ run.pc = "idle"
    /\ run.line = "cd .. | echo hi | pwd"
    /\ Len(run.done) = 1
    /\ run.done[1].out = "returned"
    /\ Len(run.done[1].calls) = 3
    /\ run.done[1].calls[2].pipe = HomeDir
    /\ run.done[1].calls[2].ret = HomeDir
    /\ run.done[1].ret = HomeDir

---------------------------------------------------------------------------
(* The pure functions applied to a text: normPath (app.js:74-82), applied   *)
(* once more to its own result, and the comparison of evalExpression        *)
(* (app.js:406-425).                                                        *)

MaxPathLen == 4   \* characters in a path given to normPath

PathChars == {"c", "a", ":", BS, "/", SHARP_S}

RECURSIVE TextsUpTo(_, _)
TextsUpTo(chars, n) ==
    IF n = 0 THEN {""}
    ELSE LET shorter == TextsUpTo(chars, n - 1)
         IN  shorter \cup {t \o ch : t \in shorter, ch \in chars}

PathTexts == TextsUpTo(PathChars, MaxPathLen)

CmpLefts   == {"5", "10", "abc", "''"}
CmpOpTexts == {"-eq", "-ne", "-lt", "-gt", "-le", "-ge", "-like", "-notlike", "-match",
               "-contains", "-EQ", "-Like", "-in"}
CmpRights  == {"3", "10", "ABC", "a*", "a.c", "b+", "("}
CmpSpaces  == {"", " "}

\* texts of the form <left> <operator> <right>, with and without the spaces
ExprTexts ==
    {l \o sp \o op \o sp \o r : l \in CmpLefts, sp \in CmpSpaces, op \in CmpOpTexts, r \in CmpRights}

MaxSegs == 3   \* segments in a relative path given to resolvePath

RelSegments == {"..", ".", "a", ""}
RelJoiners  == {BS, "/"}

RECURSIVE RelTextsUpTo(_, _)
RelTextsUpTo(joiner, n) ==
    IF n = 1 THEN RelSegments
    ELSE LET shorter == RelTextsUpTo(joiner, n - 1)
         IN  shorter \cup {t \o joiner \o seg : t \in shorter, seg \in RelSegments}

\* relative paths of up to MaxSegs segments
RelTexts == UNION {RelTextsUpTo(j, MaxSegs) : j \in RelJoiners}

\* directories of the default store Set-Location reaches when given their
\* absolute path, the drive root among them
ReachedDirs == {"C:", "C:\\Users", "C:\\Temp", DefaultCwd}

\* the names written after '$' and the texts expanded
ExpandNames == {"foo", "bar", "constructor"}

ExpandTexts ==
    UNION {{"${" \o n \o "}", "$" \o n} : n \in ExpandNames}
        \cup {"echo ${foo} $foo", "${}", "$foo.txt", "a$", "$home\\f", "$PWD"}

\* the function named fn is about to be applied to the text t
MaxStmtLen == 4   \* characters in a line given to splitStatements

StmtChars == {"a", ";", "{", "}", "'", "\""}
MoreStmtTexts == {"a ; b", " a;;b ", "echo {a;b} ; c", "a } ; b", "'a;b' ; \"c;d\""}
StmtTexts == TextsUpTo(StmtChars, MaxStmtLen) \cup MoreStmtTexts

Input(fn, t) == [op |-> "input", fn |-> fn, a |-> t]

InitPure ==
    /\ vfs = initFS(0)
    /\ storage = Stored(initFS(0))
    /\ settings = DefaultSettings
    /\ history = <<>>
    /\ clock = 0
    /\ prev = NoOp
    /\ run = Idle
    /\ nops = 0
    /\ \/ /\ cwd = DefaultCwd
          /\ variables = NoVariables
          /\ \/ \E t \in PathTexts : last = Input("normPath", t)
             \/ \E t \in ExprTexts : last = Input("evalExpression", t)
       \/ /\ variables = NoVariables
          /\ \E c \in ReachedDirs, t \in RelTexts : cwd = c /\ last = Input("resolvePath", t)
       \/ /\ cwd = DefaultCwd
          /\ \E vs \in VariableStores, t \in ExpandTexts :
                variables = vs /\ last = Input("expandVariables", t)
       \/ /\ cwd = DefaultCwd
          /\ variables = NoVariables
          /\ \E t \in StmtTexts : last = Input("splitStatements", t)

\* normPath applied to the text, and then to its own result
CallNormPath ==
    /\ \/ last.op = "input" /\ last.fn = "normPath"
       \/ last.op = "normPath" /\ prev.op = "input"
    /\ LET p == IF last.op = "input" THEN last.a ELSE last.ret
       IN  last' = [op |-> "normPath", a |-> p, ret |-> normPath(p)]
    /\ prev' = [op |-> last.op]
    /\ nops' = nops + 1
    /\ UNCHANGED <<vfs, cwd, variables, history, clock, run, storage, settings>>

\* evalExpression applied to the text: it holds no '$' and is not arithmetic,
\* so it reaches the comparison unchanged (app.js:400-405)
CallEvalExpression ==
    /\ last.op = "input" /\ last.fn = "evalExpression"
    /\ HasNoDollar(last.a)
    /\ \E i \in 1..Len(last.a) : Char(last.a, i) \notin ArithmeticChars
    /\ last' = [op |-> "evalExpression", a |-> last.a, ret |-> compareExpression(last.a)]
    /\ prev' = [op |-> last.op]
    /\ nops' = nops + 1
    /\ UNCHANGED <<vfs, cwd, variables, history, clock, run, storage, settings>>

\* resolvePath applied to the text in the current directory
CallResolvePath ==
    /\ last.op = "input" /\ last.fn = "resolvePath"
    /\ last' = [op |-> "resolvePath", a |-> last.a, ret |-> resolvePath(last.a, cwd)]
    /\ prev' = [op |-> last.op]
    /\ nops' = nops + 1
    /\ UNCHANGED <<vfs, cwd, variables, history, clock, run, storage, settings>>

CallExpandVariables ==
    /\ last.op = "input"
    /\ last.fn = "expandVariables"
    /\ last' = [op |-> "expandVariables", a |-> last.a,
                ret |-> expandVariables(last.a, variables, cwd)]
    /\ prev' = [op |-> last.op]
    /\ nops' = nops + 1
    /\ UNCHANGED <<vfs, cwd, variables, history, clock, run, storage, settings>>

CallSplitStatements ==
    /\ last.op = "input"
    /\ last.fn = "splitStatements"
    /\ last' = [op |-> "splitStatements", a |-> last.a, ret |-> splitStatements(last.a)]
    /\ prev' = [op |-> last.op]
    /\ nops' = nops + 1
    /\ UNCHANGED <<vfs, cwd, variables, history, clock, run, storage, settings>>

NextPure ==
    \/ CallNormPath \/ CallEvalExpression \/ CallResolvePath \/ CallExpandVariables
    \/ CallSplitStatements

SpecPure == InitPure /\ [][NextPure]_vars

\* C4: when evalExpression recognizes a binary comparison, what it returns is
\* exactly "True" or "False".
C4_ComparisonGivesTrueOrFalse ==
    (last.op = "evalExpression" /\ cmpMatch(last.a).op # "")
        => last.ret \in {"True", "False"}

\* C10: normPath applied to a path normPath returned gives that path again.
C10_NormPathIdempotent ==
    (last.op = "normPath" /\ prev.op = "normPath") => last.ret = last.a

\* C11: in every directory the shell reaches, the drive root included,
\* resolvePath of one ordinary segment followed by '..' is the normalized
\* current directory.
C11_DotDotRetracts ==
    (last.op = "resolvePath" /\ last.a \in {"a" \o j \o ".." : j \in RelJoiners})
        => last.ret = normPath(cwd)

\* C12: resolvePath of a relative path of '..', '.' and ordinary segments
\* begins with the drive letter and colon of the current directory.
C12_StaysOnDrive ==
    last.op = "resolvePath"
        => Len(last.ret) >= 2 /\ SubSeq(last.ret, 1, 2) = SubSeq(cwd, 1, 2)

\* three '..' from the Desktop: the third is refused at C:\Users
C12_Witness ==
    /\ last.op = "resolvePath"
    /\ cwd = DefaultCwd
    /\ last.a = "..\\..\\.."
    /\ last.ret = "C:\\Users"

\* C13: a name that is neither a user variable nor a built-in expands to the
\* empty string in the braced form ${name} and stays the literal text $name in
\* the bare form; the name of a user variable expands to the variable's value
\* in both forms.
C13_BracedAndBare ==
    last.op = "expandVariables" =>
        \A n \in ExpandNames :
            /\ (n \notin DOMAIN variables /\ getBuiltinVar(n, cwd) = UNDEFINED) =>
                  /\ (last.a = "${" \o n \o "}" => last.ret = "")
                  /\ (last.a = "$" \o n => last.ret = "$" \o n)
            /\ n \in DOMAIN variables =>
                  (last.a \in {"${" \o n \o "}", "$" \o n} => last.ret = variables[n])

\* C14: when the first stage of a statement is the text $name, name being a
\* user variable or a built-in, and no command is registered under that
\* text, the loop writes the variable's value as a variable read, the value
\* becomes the pipeline value, and the unrecognized-command error is not
\* written.
C14_BareVariableIsRead ==
    (last.op = "stage" /\ last.si = 1 /\ IsVariableRead(last.seg)) =>
        LET name == SubSeq(Trim(last.seg), 2, Len(Trim(last.seg)))
            value == IF name \in DOMAIN variables THEN variables[name]
                     ELSE getBuiltinVar(name, cwd)
        IN  (/\ name \in DOMAIN variables \/ getBuiltinVar(name, cwd) # UNDEFINED
             /\ Lookup(ToLowerCase(Trim(last.seg))) = UNDEFINED)
                => last.kind = "read" /\ last.pipe = value

\* C16: when runInput is over for a line submitted while the blob store
\* refuses every write, the history holds the line and every statement of
\* the line has been run, up to a statement whose handler threw.
C16_FailedWriteDoesNotInterrupt ==
    (run.pc = "idle" /\ run.line # "" /\ storage.full) =>
        /\ history = <<run.line>>
        /\ \/ Len(run.done) = Len(splitStatements(run.line))
           \/ Len(run.done) >= 1 /\ run.done[Len(run.done)].out = "threw"

---------------------------------------------------------------------------
(* addHistory (app.js:208-215) called again and again.  A history of n      *)
(* lines is what n calls with the lines "1", "2", ... leave of the empty    *)
(* history; the calls of the model start from such a history, so that the   *)
(* cap of HistoryCap entries is met.                                        *)

MaxAdds == 3   \* calls of addHistory in one behaviour

Filled(n) == [i \in 1..n |-> ToString(i)]

FilledHistories == {Filled(n) : n \in {0, 1, 2, HistoryCap - 1, HistoryCap}}

\* the lines added: blank ones, new ones, ones the history holds already
HistoryLines == {"", " ", "a", "b", " a", "1", "2"}

InitHist ==
    /\ vfs = initFS(0)
    /\ settings = DefaultSettings
    /\ cwd = DefaultCwd
    /\ variables = NoVariables
    /\ clock = 0
    /\ last = NoOp
    /\ run = Idle
    /\ nops = 0
    /\ \E h \in FilledHistories :
          /\ history = h
          /\ storage = [Stored(initFS(0)) EXCEPT !.pstogo_history = Json(h)]
          /\ prev = IF h = <<>> THEN NoOp ELSE [op |-> "added", a |-> h[Len(h)]]

\* addHistory(cmd); prev keeps the last line added that was not blank
AddHistory ==
    /\ nops < MaxAdds
    /\ \E cmd \in HistoryLines :
          /\ history' = addHistory(history, cmd)
          /\ storage' = IF Trim(cmd) = "" THEN storage
                        ELSE setItem(storage, "pstogo_history", addHistory(history, cmd)).st
          /\ last' = [op |-> "addHistory", a |-> cmd, pre |-> history,
                      historyIndex |-> IF Trim(cmd) = "" THEN UNDEFINED
                                       ELSE ToString(Len(addHistory(history, cmd)))]
          /\ prev' = IF Trim(cmd) = "" THEN prev ELSE [op |-> "added", a |-> cmd]
    /\ nops' = nops + 1
    /\ UNCHANGED <<vfs, cwd, variables, clock, run, settings>>

NextHist == AddHistory

SpecHist == InitHist /\ [][NextHist]_vars

\* the lines of a history, as a set
Lines(h) == {h[i] : i \in 1..Len(h)}

\* C15: the history holds no line twice and at most HistoryCap lines, its
\* last entry is the last line added that was not blank, and adding a line
\* it holds already moves that line to the end, the other entries keeping
\* their order.
C15_HistoryInvariant ==
    /\ Cardinality(Lines(history)) = Len(history)
    /\ Len(history) <= HistoryCap
    /\ prev.op = "added" => (history # <<>> /\ history[Len(history)] = prev.a)
    /\ (last.op = "addHistory" /\ last.a \in Lines(last.pre)) =>
          history = Append(SelectSeq(last.pre, LAMBDA x : x # last.a), last.a)

\* a new line has been added to a history of HistoryCap lines: the oldest
\* line is gone
C15_Witness ==
    /\ last.op = "addHistory"
    /\ Len(last.pre) = HistoryCap
    /\ last.a = "a"
    /\ Len(history) = HistoryCap
    /\ history[1] = last.pre[2]
    /\ history[HistoryCap] = "a"

---------------------------------------------------------------------------
(* Startup: init (app.js:1590-1605) on DOMContentLoaded, with whatever the  *)
(* blob store holds under the three keys.                                   *)

SavedStores    == {Missing, Garbage, Json(SmallStore)}
SavedHistories == {Missing, Garbage, Json(<<"pwd", "cd ..">>)}
SavedSettings  == {Missing, Garbage, Json([theme |-> "light", fontSize |-> 30])}

\* the script has been evaluated (app.js:15-30), init has not been called
InitBoot ==
    /\ vfs = [k \in {} |-> DirNode(0, 0)]
    /\ cwd = DefaultCwd
    /\ variables = NoVariables
    /\ history = <<>>
    /\ settings = DefaultSettings
    /\ last = NoOp
    /\ prev = NoOp
    /\ nops = 0
    /\ \E now \in 0..MaxClock : clock = now
    /\ \E full \in BOOLEAN, f \in SavedStores, h \in SavedHistories, g \in SavedSettings :
          storage = [full |-> full, pstogo_fs |-> f, pstogo_history |-> h, pstogo_settings |-> g]
    /\ run = [pc |-> "init", step |-> "initFS", found |-> storage]

\* initFS() (app.js:32-68)
BootInitFS ==
    /\ run.pc = "init" /\ run.step = "initFS"
    /\ IF storage.pstogo_fs.kind = "json"
       THEN vfs' = storage.pstogo_fs.value /\ UNCHANGED storage
       ELSE vfs' = initFS(clock) /\ storage' = saveFS(storage, initFS(clock))
    /\ run' = [run EXCEPT !.step = "loadSettings"]
    /\ UNCHANGED <<cwd, variables, history, clock, last, prev, nops, settings>>

\* applyFontSize (app.js:193-194): Math.max(10, Math.min(22, size))
ClampFontSize(size) == IF size < 10 THEN 10 ELSE IF size > 22 THEN 22 ELSE size

\* loadSettings() (app.js:174-180): JSON.parse is not guarded, its SyntaxError
\* leaves init
BootLoadSettings ==
    /\ run.pc = "init" /\ run.step = "loadSettings"
    /\ IF storage.pstogo_settings.kind = "garbage"
       THEN /\ run' = [run EXCEPT !.pc = "threw"]
            /\ UNCHANGED settings
       ELSE /\ run' = [run EXCEPT !.step = "loadHistory"]
            /\ settings' = IF storage.pstogo_settings.kind = "missing" THEN DefaultSettings
                           ELSE [theme |-> storage.pstogo_settings.value.theme,
                                 fontSize |-> ClampFontSize(storage.pstogo_settings.value.fontSize)]
    /\ UNCHANGED <<vfs, cwd, variables, history, clock, last, prev, nops, storage>>

\* loadHistory() (app.js:204-206)
BootLoadHistory ==
    /\ run.pc = "init" /\ run.step = "loadHistory"
    /\ history' = IF storage.pstogo_history.kind = "json" THEN storage.pstogo_history.value
                  ELSE <<>>
    /\ run' = [run EXCEPT !.step = "initUI"]
    /\ UNCHANGED <<vfs, cwd, variables, clock, last, prev, nops, storage, settings>>

\* initUI(); updatePromptLabel(); showWelcome() (app.js:1594-1596): init returns
BootInitUI ==
    /\ run.pc = "init" /\ run.step = "initUI"
    /\ run' = [run EXCEPT !.pc = "returned"]
    /\ UNCHANGED <<vfs, cwd, variables, history, clock, last, prev, nops, storage, settings>>

NextBoot == BootInitFS \/ BootLoadSettings \/ BootLoadHistory \/ BootInitUI

SpecBoot == InitBoot /\ [][NextBoot]_vars

\* the blob found under the key at startup is missing or unparsable
NoSavedState(key) == run.found[key].kind \in {"missing", "garbage"}

\* C17: init does not throw, and when it has returned the store, the history
\* and the settings whose blob was missing or unparsable have their default
\* values.
C17_StartupTolerant ==
    /\ run.pc # "threw"
    /\ run.pc = "returned" =>
          /\ NoSavedState("pstogo_fs") => vfs = initFS(clock)
          /\ NoSavedState("pstogo_history") => history = <<>>
          /\ NoSavedState("pstogo_settings") => settings = DefaultSettings

---------------------------------------------------------------------------
(* safeArith applied to a text: every short text over the characters of     *)
(* ArithChars, some longer texts, and the texts of expression trees.        *)

MaxArithLen  == 4   \* characters of a text drawn from ArithChars
MaxOperators == 2   \* operators, unary and binary, in an expression tree

ArithChars == {"0", "2", "-", "*", "/", "(", ")"}
MoreArithTexts == {"2 3", "2 + 3", "1.5*2", ".", "2a", "1.2.3", "7%3", "7%0", "(2+3)*(2"}

\* an expression tree: a number, the negation of a tree, or two trees joined
\* by a binary operator
NoTree   == [k |-> "none", l |-> <<>>, n |-> 0, op |-> "", r |-> <<>>]
Leaf(n)  == [k |-> "num", l |-> <<>>, n |-> n, op |-> "", r |-> <<>>]
Minus(e) == [k |-> "neg", l |-> e, n |-> 0, op |-> "-", r |-> <<>>]
Binary(op, l, r) == [k |-> "bin", l |-> l, n |-> 0, op |-> op, r |-> r]

TreeNumbers   == {0, 2}
TreeOperators == {"+", "-", "*", "/"}

RECURSIVE TreesOf(_)
TreesOf(n) ==
    IF n = 0 THEN {Leaf(i) : i \in TreeNumbers}
    ELSE LET Joined(ls, rs) == {Binary(op, l, r) : op \in TreeOperators, l \in ls, r \in rs}
         IN  {Minus(e) : e \in TreesOf(n - 1)}
                 \cup UNION {Joined(TreesOf(i), TreesOf(n - 1 - i)) : i \in 0..(n - 1)}

\* the trees of up to m operators
TreesUpTo(m) == UNION {TreesOf(n) : n \in 0..m}

\* how tightly the top of a tree binds: a sum least, a product more, a
\* number and a signed factor most
Binding(e) ==
    IF e.k = "bin" THEN (IF e.op \in {"+", "-"} THEN 1 ELSE 2) ELSE 3

\* the text of a tree, with the parentheses standard precedence and left
\* associativity need and no others
RECURSIVE Render(_)
Render(e) ==
    LET Wrap(x, needed) == IF needed THEN "(" \o Render(x) \o ")" ELSE Render(x)
    IN  CASE e.k = "num" -> ToString(e.n)
          [] e.k = "neg" -> "-" \o Wrap(e.l, e.l.k = "bin")
          [] e.k = "bin" -> Wrap(e.l, Binding(e.l) < Binding(e)) \o e.op
                                \o Wrap(e.r, Binding(e.r) <= Binding(e))

\* the value of a tree in exact arithmetic; bad when some division in it
\* has a right operand whose value is zero
RECURSIVE Value(_)
Value(e) ==
    CASE e.k = "num" -> [bad |-> FALSE, q |-> Fraction(e.n, 1)]
      [] e.k = "neg" -> LET x == Value(e.l)
                        IN  [bad |-> x.bad, q |-> Fraction(0 - x.q.n, x.q.d)]
      [] e.k = "bin" ->
            LET x == Value(e.l)
                y == Value(e.r)
                bad == x.bad \/ y.bad \/ (e.op = "/" /\ y.q.n = 0)
            IN  [bad |-> bad,
                 q |-> IF bad THEN Fraction(0, 1)
                       ELSE CASE e.op = "+" -> Fraction(x.q.n * y.q.d + y.q.n * x.q.d, x.q.d * y.q.d)
                              [] e.op = "-" -> Fraction(x.q.n * y.q.d - y.q.n * x.q.d, x.q.d * y.q.d)
                              [] e.op = "*" -> Fraction(x.q.n * y.q.n, x.q.d * y.q.d)
                              [] e.op = "/" -> Fraction(x.q.n * y.q.d, x.q.d * y.q.n)]

\* the operators of a tree
RECURSIVE OperatorsOf(_)
OperatorsOf(e) ==
    CASE e.k = "num" -> {}
      [] e.k = "neg" -> OperatorsOf(e.l)
      [] e.k = "bin" -> {e.op} \cup OperatorsOf(e.l) \cup OperatorsOf(e.r)

InitArith ==
    /\ vfs = initFS(0)
    /\ storage = Stored(initFS(0))
    /\ settings = DefaultSettings
    /\ cwd = DefaultCwd
    /\ variables = NoVariables
    /\ history = <<>>
    /\ clock = 0
    /\ prev = NoOp
    /\ run = Idle
    /\ nops = 0
    /\ \/ \E t \in TextsUpTo(ArithChars, MaxArithLen) \cup MoreArithTexts :
             last = [op |-> "input", fn |-> "safeArith", a |-> t, tree |-> NoTree]
       \/ \E e \in TreesUpTo(MaxOperators) :
             last = [op |-> "input", fn |-> "safeArith", a |-> Render(e), tree |-> e]

CallSafeArith ==
    /\ last.op = "input"
    /\ last.fn = "safeArith"
    /\ last' = [op |-> "safeArith", a |-> last.a, tree |-> last.tree, ret |-> safeArith(last.a)]
    /\ prev' = [op |-> last.op]
    /\ nops' = nops + 1
    /\ UNCHANGED <<vfs, cwd, variables, history, clock, run, storage, settings>>

NextArith == CallSafeArith

SpecArith == InitArith /\ [][NextArith]_vars

\* the positions after the token sequences that begin at token i and are
\* derived from factor, from term and from expr of the grammar
\*   expr := term (('+'|'-') term)*     term := factor (('*'|'/'|'%') factor)*
\*   factor := NUMBER | '(' expr ')' | ('-'|'+') factor
RECURSIVE ExprEnds(_, _), TermEnds(_, _), FactorEnds(_, _)
FactorEnds(tokens, i) ==
    IF i > Len(tokens) THEN {}
    ELSE IF tokens[i].t = "num" THEN {i + 1}
    ELSE IF tokens[i].c = "("
         THEN {j + 1 : j \in {x \in ExprEnds(tokens, i + 1) :
                                 x <= Len(tokens) /\ tokens[x].t = "op" /\ tokens[x].c = ")"}}
    ELSE IF tokens[i].c \in {"-", "+"} THEN FactorEnds(tokens, i + 1)
    ELSE {}

TermEnds(tokens, i) ==
    LET first == FactorEnds(tokens, i)
    IN  first \cup UNION {TermEnds(tokens, j + 1) :
                             j \in {x \in first : x <= Len(tokens) /\ tokens[x].t = "op"
                                                    /\ tokens[x].c \in {"*", "/", "%"}}}

ExprEnds(tokens, i) ==
    LET first == TermEnds(tokens, i)
    IN  first \cup UNION {ExprEnds(tokens, j + 1) :
                             j \in {x \in first : x <= Len(tokens) /\ tokens[x].t = "op"
                                                    /\ tokens[x].c \in {"+", "-"}}}

\* the whole token sequence is a sentence of the grammar
Derivable(tokens) == (Len(tokens) + 1) \in ExprEnds(tokens, 1)

\* C18: safeArith returns a number only for a text whose characters are all
\* tokenised and whose whole token sequence is a sentence of the grammar;
\* for every other text it returns NaN.
C18_NumberOnlyForSentences ==
    (last.op = "safeArith" /\ ~last.ret.nan) =>
        /\ Tokenize(last.a, 1, <<>>).ok
        /\ Derivable(Tokenize(last.a, 1, <<>>).tokens)

\* C19: for the text of an expression tree over +, -, * and unary minus
\* safeArith returns the value of the tree.
C19_StandardPrecedence ==
    (last.op = "safeArith" /\ last.tree.k # "none" /\ "/" \notin OperatorsOf(last.tree)) =>
        last.ret = Value(last.tree).q

\* a product in the right operand of a sum, and a sum in parentheses as the
\* left operand of a product
C19_Witness ==
    /\ last.op = "safeArith"
    /\ \/ last.a = "2+2*2" /\ last.ret = Fraction(6, 1)
       \/ last.a = "(2+2)*2" /\ last.ret = Fraction(8, 1)

\* C20: for the text of an expression tree in which some division has a
\* right operand whose value is zero safeArith returns NaN.
C20_ZeroDivisorGivesNaN ==
    (last.op = "safeArith" /\ last.tree.k # "none" /\ Value(last.tree).bad) =>
        last.ret = NaN

\* a division by zero multiplied by zero
C20_Witness ==
    /\ last.op = "safeArith"
    /\ last.a = "0*(2/0)"
    /\ last.tree = Binary("*", Leaf(0), Binary("/", Leaf(2), Leaf(0)))
    /\ last.ret = NaN

---------------------------------------------------------------------------
(* -like and -notlike of evalExpression (app.js:420-421) against a glob     *)

\* s matches the glob g as a whole, ignoring case: '*' is any sequence of
\* characters, '?' any one character, every other character itself
RECURSIVE GlobMatches(_, _)
GlobMatches(g, s) ==
    IF g = "" THEN s = ""
    ELSE IF Head(g) = "*"
         THEN \E k \in 0..Len(s) : GlobMatches(Tail(g), SubSeq(s, k + 1, Len(s)))
         ELSE /\ s # ""
              /\ Head(g) = "?" \/ ToLowerChar(Head(g)) = ToLowerChar(Head(s))
              /\ GlobMatches(Tail(g), Tail(s))

\* C21: for -like evalExpression returns true exactly when the left operand
\* matches the right operand as a case-insensitive glob anchored at both
\* ends, in which every character other than '*' and '?' stands for itself;
\* -notlike returns the negation.
C21_LikeIsGlob ==
    (last.op = "evalExpression" /\ cmpMatch(last.a).op \in {"-like", "-notlike"}) =>
        LET m  == cmpMatch(last.a)
            lv == StripQuotes(Trim(m.l))
            rv == StripQuotes(Trim(m.r))
        IN  last.ret = StringOfBoolean(GlobMatches(rv, lv) <=> (m.op = "-like"))

---------------------------------------------------------------------------
(* The arithmetic shortcut of executeCommand (app.js:1165-1169) *)

\* C22: a statement made only of the characters of arithmetic that begins
\* with a digit or '(' never reaches the pipeline loop, and no pass of the
\* loop writes the unrecognized-command error for it.
C22_ShortcutBypassesPipeline ==
    /\ run.pc = "pipeline" => ~IsArithmeticLine(Trim(run.stmts[Len(run.done) + 1]))
    /\ (last.op = "stage" /\ last.kind = "break") => ~IsArithmeticLine(Trim(run.stmts[last.k]))

---------------------------------------------------------------------------
(* What changes state.cwd in a session (app.js:566, 1495) *)

\* C23 as stated: state.cwd changes only as the effect of Set-Location; every
\* other command and every other action of the interface leaves it unchanged.
C23_AsStated ==
    (last.op # "none" /\ cwd # last.preCwd) => last.op = "Set-Location"

\* C23: state.cwd changes only as the effect of Set-Location or of the reset
\* of the filesystem, which makes the default directory the current one;
\* every other command leaves it unchanged.
C23_CwdChangedBySetLocationOrReset ==
    (last.op # "none" /\ cwd # last.preCwd) =>
        \/ last.op = "Set-Location" /\ last.out = "ok" /\ cwd = last.ret
        \/ last.op = "reset-fs" /\ cwd = DefaultCwd

\* the filesystem was reset in another directory than the default one
C23_Witness ==
    /\ last.op = "reset-fs"
    /\ last.preCwd = HomeDir
    /\ cwd = DefaultCwd

---------------------------------------------------------------------------
(* Set-Location on a target that is no directory (app.js:559-569) *)

\* the path Set-Location resolves for the operand a in the directory c
TargetOf(a, c) ==
    LET t == IF IsNullish(a) \/ a = "-" THEN c ELSE IF a = "~" THEN HomeDir ELSE a
    IN  resolvePath(t, c)

\* C24: Set-Location whose resolved target does not exist, or exists but is a
\* file, reports an error, returns null, and leaves state.cwd and the
\* filesystem store unchanged.
C24_SetLocationFailsCleanly ==
    (/\ last.op = "Set-Location"
     /\ IsString(TargetOf(last.a, last.preCwd))
     /\ \/ ~fsExists(last.pre, TargetOf(last.a, last.preCwd))
        \/ fsIsFile(last.pre, TargetOf(last.a, last.preCwd)))
        => /\ last.out = "error"
           /\ last.ret = NULL
           /\ cwd = last.preCwd
           /\ vfs = last.pre

\* cd to a file of the current directory, after a successful cd
C24_Witness ==
    /\ last.op = "Set-Location"
    /\ prev.op = "Set-Location"
    /\ last.a = "readme.txt"
    /\ fsIsFile(last.pre, TargetOf(last.a, last.preCwd))
    /\ last.out = "error"
    /\ cwd = last.preCwd

---------------------------------------------------------------------------
(* splitStatements (app.js:1328-1345) against the split points of a line *)

\* after the first n characters of the line: inside single quotes, inside
\* double quotes, and the number of '{' outside quotes not yet closed by a '}'
RECURSIVE Enclosure(_, _)
Enclosure(line, n) ==
    IF n = 0 THEN [inS |-> FALSE, inD |-> FALSE, open |-> 0]
    ELSE LET e == Enclosure(line, n - 1)
             c == Char(line, n)
         IN  IF c = "'" /\ ~e.inD THEN [e EXCEPT !.inS = ~@]
             ELSE IF c = "\"" /\ ~e.inS THEN [e EXCEPT !.inD = ~@]
             ELSE IF c = "{" /\ ~e.inS /\ ~e.inD THEN [e EXCEPT !.open = @ + 1]
             ELSE IF c = "}" /\ ~e.inS /\ ~e.inD /\ e.open > 0 THEN [e EXCEPT !.open = @ - 1]
             ELSE e

\* the ';' outside quotes that no unclosed '{' encloses
SplitPoints(line) ==
    {i \in 1..Len(line) :
        /\ Char(line, i) = ";"
        /\ ~Enclosure(line, i - 1).inS
        /\ ~Enclosure(line, i - 1).inD
        /\ Enclosure(line, i - 1).open = 0}

\* the trimmed non-empty pieces of the line from position i on, cut at the
\* split points, in the order of the line
RECURSIVE PiecesFrom(_, _)
PiecesFrom(line, i) ==
    IF i > Len(line) + 1 THEN <<>>
    ELSE LET later == {j \in SplitPoints(line) : j >= i}
             stop  == IF later = {} THEN Len(line) + 1
                      ELSE CHOOSE j \in later : \A k \in later : j <= k
             piece == Trim(SubSeq(line, i, stop - 1))
         IN  (IF piece = "" THEN <<>> ELSE <<piece>>) \o PiecesFrom(line, stop + 1)

\* C25: splitStatements splits at a ';' if and only if it lies outside single
\* and double quotes and no unclosed '{' encloses it, and returns the trimmed
\* non-empty pieces between the split points in the order of the line.
C25_SplitsAtTopLevelSemicolons ==
    last.op = "splitStatements" => last.ret = PiecesFrom(last.a, 1)

---------------------------------------------------------------------------
(* fsMove (app.js:168-171) on a file *)

\* C26: whenever fsMove reports success for a source file, afterwards a file
\* holding the source's content exists at the effective destination path,
\* also when that path is the source's own.
C26_MovedFileExists ==
    (last.op = "fsMove" /\ last.ret /\ fsIsFile(last.pre, last.p)) =>
        LET dst == CopyTarget(last.pre, normPath(last.p), normPath(last.q))
        IN  /\ fsIsFile(vfs, dst)
            /\ fsGetContent(vfs, dst) = fsGetContent(last.pre, last.p)

---------------------------------------------------------------------------
(* Remove-Item without -Recurse (app.js:627-638) *)

\* C27: Remove-Item invoked without -Recurse removes at most the entry at its
\* target path: every other entry that existed before the command exists
\* after it.
C27_RemovesOnlyTheTarget ==
    (last.op = "Remove-Item" /\ last.b # "-Recurse") =>
        \A k \in DOMAIN last.pre :
            k # resolvePath(last.a, last.preCwd) => k \in DOMAIN vfs

---------------------------------------------------------------------------
(* The shape of the store *)

\* C28: in every reachable state of the store no file node has descendants:
\* there are no keys p and p + separator + rest with a file at p.
C28_FilesHaveNoDescendants ==
    \A p \in DOMAIN vfs, k \in DOMAIN vfs : vfs[p].type = "file" => ~IsBelow(k, p)

---------------------------------------------------------------------------
(* executeCommand entered from within itself: Invoke-Expression             *)
(* (app.js:937-941) hands a script to executeCommand while the call that    *)
(* runs it is in progress.  run.stack holds one frame for each call of      *)
(* executeCommand in progress, the innermost last; the engine raises        *)
(* RangeError when a call is made that its stack has no room for.           *)

RangeError == "#RangeError"    \* thrown by the engine: the call stack is exhausted

MaxDepth == 3   \* calls of executeCommand in progress that the stack of the engine holds
MaxLines == 2   \* lines submitted in one session

\* evalExpression once it has trimmed and expanded the text (app.js:401-426):
\* the number when the text is arithmetic and safeArith gives one, else the
\* comparison
evaluated(expr) ==
    IF /\ expr # ""
       /\ \A i \in 1..Len(expr) : Char(expr, i) \in ArithmeticChars
       /\ ~safeArith(expr).nan
    THEN StringOfNumber(safeArith(expr))
    ELSE compareExpression(expr)

\* evalExpression (app.js:399-427)
evalExpression(expr0, vs, c) == evaluated(expandVariables(Trim(expr0), vs, c))

\* line.match(/^\$([A-Za-z_]\w*)\s*=\s*(.*)$/)  (app.js:1157)
assignMatch(line) ==
    LET e    == IF Len(line) >= 2 /\ Head(line) = "$" /\ IsNameStart(Char(line, 2))
                THEN WordEnd(line, 2) ELSE 0
        rest == TrimStart(SubSeq(line, e, Len(line)))
    IN  IF e = 0 \/ rest = "" \/ Head(rest) # "="
        THEN [ok |-> FALSE, name |-> "", expr |-> ""]
        ELSE [ok |-> TRUE, name |-> SubSeq(line, 2, e - 1), expr |-> TrimStart(Tail(rest))]

\* what executeCommand returns without entering its loop
Returned(value, vs) == [kind |-> "return", ret |-> value, vs |-> vs, segs |-> <<>>]

\* the assignment of executeCommand (app.js:1159-1162)
Assigned(name, value, vs) == Returned(value, Put(vs, name, value))

\* executeCommand on a trimmed line that is no assignment (app.js:1165-1172)
Unassigned(line, n, vs) ==
    IF line = "" \/ StartsWith(line, "#") THEN Returned(NULL, vs)
    ELSE IF IsArithmeticLine(line) /\ ~n.nan THEN Returned(StringOfNumber(n), vs)
    ELSE [kind |-> "loop", ret |-> NULL, vs |-> vs, segs |-> parsePipeline(line)]

\* executeCommand on a trimmed line, m the match of the assignment pattern
Matched(line, m, vs, c) ==
    IF line # "" /\ ~StartsWith(line, "#") /\ m.ok
    THEN Assigned(m.name,
                  evalExpression(expandVariables(StripQuotes(Trim(m.expr)), vs, c), vs, c), vs)
    ELSE Unassigned(line, safeArith(line), vs)

\* executeCommand(line) up to its pipeline loop (app.js:1150-1173): it
\* returns at once (nothing to run, a comment, an assignment, an arithmetic
\* expression), or it enters the loop over the segments of the line
Entered(line0, vs, c) == Matched(Trim(line0), assignMatch(Trim(line0)), vs, c)

\* the names reg() gives Invoke-Expression, lower-cased (app.js:938)
IexNames == {"invoke-expression", "iex"}

\* lines that assign and run scripts
NestedLines ==
    {"$x = 'iex $x'", "$x", "iex $x", "$y = 'pwd'", "iex $y", "iex pwd", "iex 'iex pwd'",
     "echo pwd | iex", "pwd | iex", "iex", "$n = 2+2 ; iex '$m = 1' ; $n", "iex -Command 'cd ..' | echo"}

InitNested ==
    /\ vfs = initFS(0)
    /\ cwd = DefaultCwd
    /\ variables = NoVariables
    /\ history = <<>>
    /\ clock = 0
    /\ last = NoOp
    /\ prev = NoOp
    /\ nops = 0
    /\ settings = DefaultSettings
    /\ storage = Stored(initFS(0))
    /\ run = [pc |-> "idle", line |-> "", stmts |-> <<>>, done |-> <<>>, stack |-> <<>>]

\* run after executeCommand has returned value to its caller: the forEach of
\* runInput when no call is in progress, else the Invoke-Expression of the
\* innermost call in progress, which returns the value to its loop (app.js:940, 1200)
GiveBack(callers, value) ==
    IF callers = <<>>
    THEN [run EXCEPT !.pc = "forEach", !.stack = <<>>,
                     !.done = Append(@, [out |-> "returned", ret |-> value])]
    ELSE LET f == callers[Len(callers)]
         IN  [run EXCEPT !.pc = "pipeline",
                         !.stack = Append(Front(callers),
                                          [f EXCEPT !.si = @ + 1, !.pipeValue = value])]

\* run after an exception has left every call in progress, the forEach and runInput
Thrown(err) ==
    [run EXCEPT !.pc = "idle", !.stack = <<>>, !.done = Append(@, [out |-> "threw", ret |-> err])]

\* executeCommand(script) is called while the calls of callers are in progress
Calls(script, callers) ==
    LET Got(e) ==
            IF Len(callers) >= MaxDepth
            THEN /\ run' = Thrown(RangeError)
                 /\ UNCHANGED variables
            ELSE /\ variables' = e.vs
                 /\ run' = IF e.kind = "return" THEN GiveBack(callers, e.ret)
                           ELSE [run EXCEPT !.pc = "pipeline",
                                            !.stack = Append(callers, [segs |-> e.segs, si |-> 1,
                                                                       pipeValue |-> NULL])]
    IN  /\ Got(Entered(script, variables, cwd))
        /\ last' = [op |-> "executeCommand", line |-> script, depth |-> Len(callers) + 1]

\* runInput up to the forEach (app.js:1308-1321)
NestedRunInput ==
    /\ run.pc = "idle"
    /\ nops < MaxLines
    /\ \E line \in NestedLines :
        /\ history' = addHistory(history, line)
        /\ storage' = setItem(storage, "pstogo_history", addHistory(history, line)).st
        /\ run' = [pc |-> "forEach", line |-> line, stmts |-> splitStatements(line),
                   done |-> <<>>, stack |-> <<>>]
    /\ nops' = nops + 1
    /\ UNCHANGED <<vfs, cwd, variables, clock, last, prev, settings>>

\* the forEach calls executeCommand on the next statement (app.js:1321)
NestedExecuteCommand ==
    /\ run.pc = "forEach"
    /\ Len(run.done) < Len(run.stmts)
    /\ Calls(run.stmts[Len(run.done) + 1], <<>>)
    /\ UNCHANGED <<vfs, cwd, history, clock, prev, nops, storage, settings>>

\* the script Invoke-Expression hands to executeCommand (app.js:939):
\* expandVariables(pipe ?? params.command ?? args.join(' ')), TypeError when
\* that is not a string
InvokeExpression(args, params, pipe, vs, c) ==
    LET source == Coalesce(pipe, Coalesce(Param(params, "command"), Join(args)))
    IN  IF source = OBJECT \/ ~IsString(source) THEN TypeError
        ELSE expandVariables(source, vs, c)

\* the pass of the loop that calls Invoke-Expression
Invoked(script, pipeValue, fs, c) ==
    IF script = TypeError
    THEN [kind |-> "throw", pipe |-> TypeError, fs |-> fs, cwd |-> c, script |-> ""]
    ELSE [kind |-> "invoke", pipe |-> pipeValue, fs |-> fs, cwd |-> c, script |-> script]

\* the pass of the loop that calls no Invoke-Expression
Staged(st) == [kind |-> st.kind, pipe |-> st.pipe, fs |-> st.fs, cwd |-> st.cwd, script |-> ""]

\* the pass of the loop over a segment whose words are rawArgs
Parsed(rawArgs, parsed, seg0, pipeValue, fs, c, vs) ==
    IF Len(rawArgs) > 0 /\ ToLowerCase(rawArgs[1]) \in IexNames
    THEN Invoked(InvokeExpression(parsed.positional, parsed.params, pipeValue, vs, c),
                 pipeValue, fs, c)
    ELSE Staged(executeStage(seg0, pipeValue, fs, c, vs))

\* one pass of the pipeline loop (app.js:1176-1201) in which the command may
\* be Invoke-Expression: "invoke" with the script it hands to executeCommand,
\* else what executeStage gives
StageOrInvoke(seg0, pipeValue, fs, c, vs) ==
    Parsed(parseArgs(Trim(expandVariables(seg0, vs, c))),
           parseNamedParams(Tail(parseArgs(Trim(expandVariables(seg0, vs, c))))),
           seg0, pipeValue, fs, c, vs)

\* one pass of the pipeline loop of the innermost call (app.js:1176-1201)
NestedStage ==
    /\ run.pc = "pipeline"
    /\ run.stack[Len(run.stack)].si <= Len(run.stack[Len(run.stack)].segs)
    /\ LET Pass(f, st) ==
            /\ vfs' = st.fs
            /\ cwd' = st.cwd
            /\ storage' = saveFS(storage, st.fs)
            /\ CASE st.kind = "invoke" -> Calls(st.script, run.stack)
                 [] st.kind = "continue" ->
                        /\ run' = [run EXCEPT !.stack[Len(run.stack)].si = @ + 1]
                        /\ UNCHANGED <<variables, last>>
                 [] st.kind \in {"read", "call"} ->
                        /\ run' = [run EXCEPT !.stack[Len(run.stack)].si = @ + 1,
                                              !.stack[Len(run.stack)].pipeValue = st.pipe]
                        /\ UNCHANGED <<variables, last>>
                 [] st.kind = "break" ->
                        /\ run' = GiveBack(Front(run.stack), NULL)
                        /\ UNCHANGED <<variables, last>>
                 [] st.kind = "throw" ->
                        /\ run' = Thrown(st.pipe)
                        /\ UNCHANGED <<variables, last>>
       IN  Pass(run.stack[Len(run.stack)],
                StageOrInvoke(run.stack[Len(run.stack)].segs[run.stack[Len(run.stack)].si],
                              run.stack[Len(run.stack)].pipeValue, vfs, cwd, variables))
    /\ UNCHANGED <<history, clock, prev, nops, settings>>

\* the loop of the innermost call is over: return pipeValue (app.js:1203)
NestedReturn ==
    /\ run.pc = "pipeline"
    /\ LET f == run.stack[Len(run.stack)]
       IN  /\ f.si > Len(f.segs)
           /\ run' = GiveBack(Front(run.stack), f.pipeValue)
    /\ UNCHANGED <<vfs, cwd, variables, history, clock, last, prev, nops, storage, settings>>

\* the forEach is over: the rest of runInput (app.js:1323-1324)
NestedFinish ==
    /\ run.pc = "forEach"
    /\ Len(run.done) = Len(run.stmts)
    /\ run' = [run EXCEPT !.pc = "idle"]
    /\ UNCHANGED <<vfs, cwd, variables, history, clock, last, prev, nops, storage, settings>>

NextNested ==
    NestedRunInput \/ NestedExecuteCommand \/ NestedStage \/ NestedReturn \/ NestedFinish

SpecNested == InitNested /\ [][NextNested]_vars

\* C29: every call of executeCommand returns to its caller, also when the
\* line enters executeCommand again through Invoke-Expression with a script
\* that variables were expanded in: no statement of a line ends with an
\* exhausted call stack.
C29_ExecuteCommandReturns ==
    \A k \in 1..Len(run.done) : run.done[k].ret # RangeError

(***************************************************************************)
(* The service worker (sw.js).  run.caches is the cache CACHE_NAME, a      *)
(* response for every URL (NoResponse where there is no entry); run.events *)
(* are the fetch events received, each with the position its promise chain *)
(* has reached.  A response is told from another one by v, the number of   *)
(* the network fetch that produced it (0 for the precached ones).          *)
(***************************************************************************)
MaxEvents == 2

\* the URLs of PRECACHE_URLS among the ones requested (sw.js:7-14)
PRECACHE_URLS == {"./index.html", "./app.js"}

Urls == PRECACHE_URLS \cup {"./docs", "./api/items"}

\* undefined where a response is expected: no cache entry, nothing answered yet
NoResponse == [status |-> -1, type |-> "undefined", v |-> 0]

\* the rejection of fetch() (offline)
Failed == [status |-> -1, type |-> "rejected", v |-> 0]

\* new Response('Offline', { status: 503, ... }) (sw.js:88)
Offline == [status |-> 503, type |-> "default", v |-> 0]

\* the fetch events the worker receives
Requests ==
    {[method |-> "GET", protocol |-> "https:", url |-> "./app.js", mode |-> "no-cors"],
     [method |-> "GET", protocol |-> "https:", url |-> "./index.html", mode |-> "navigate"],
     [method |-> "GET", protocol |-> "http:", url |-> "./docs", mode |-> "navigate"],
     [method |-> "GET", protocol |-> "https:", url |-> "./api/items", mode |-> "cors"],
     [method |-> "POST", protocol |-> "https:", url |-> "./api/items", mode |-> "cors"],
     [method |-> "GET", protocol |-> "chrome-extension:", url |-> "./app.js", mode |-> "no-cors"]}

\* what the network answers the n-th fetch with; an opaque response has status 0
NetworkResponses(n) ==
    {[status |-> 200, type |-> "basic", v |-> n],
     [status |-> 404, type |-> "basic", v |-> n],
     [status |-> 0, type |-> "opaque", v |-> n]}

\* after install (sw.js:17-26): cache.addAll(PRECACHE_URLS) has stored a response
\* for each of them, and no fetch event has been received
InitSW ==
    /\ vfs = initFS(0)
    /\ cwd = DefaultCwd
    /\ variables = NoVariables
    /\ history = <<>>
    /\ clock = 0
    /\ last = NoOp
    /\ prev = NoOp
    /\ nops = 0
    /\ settings = DefaultSettings
    /\ storage = Stored(initFS(0))
    /\ run = [caches |-> [u \in Urls |-> IF u \in PRECACHE_URLS
                                          THEN [status |-> 200, type |-> "basic", v |-> 0]
                                          ELSE NoResponse],
              events |-> <<>>]

\* the fetch listener up to event.respondWith (sw.js:45-55): a request that is
\* not GET or not http(s) is left to the browser, for any other one
\* caches.match(event.request) is started
FetchListener ==
    /\ Len(run.events) < MaxEvents
    /\ \E request \in Requests :
         run' = [run EXCEPT !.events = Append(@,
                    [request |-> request,
                     pc |-> IF request.method # "GET" \/ ~StartsWith(request.protocol, "http")
                            THEN "browser" ELSE "match",
                     cached |-> NoResponse, network |-> NoResponse,
                     cloned |-> NoResponse, answer |-> NoResponse])]
    /\ last' = [op |-> "fetch event", i |-> Len(run.events) + 1, response |-> NoResponse]
    /\ UNCHANGED <<vfs, cwd, variables, history, clock, prev, nops, storage, settings>>

\* a caches.match() resolves.  The one of sw.js:55 runs the callback of
\* sw.js:56-90 up to its return: with a match fetch() is started and cached
\* is what respondWith gets (sw.js:57-70), without one fetch() is started
\* and its chain decides the answer (sw.js:74).  The one of sw.js:86 is the
\* answer of a navigation that failed.
CacheMatched ==
    \E i \in 1..Len(run.events) :
      LET e == run.events[i] IN
      /\ e.pc \in {"match", "fallback"}
      /\ IF e.pc = "match"
         THEN LET cached == run.caches[e.request.url] IN
              /\ run' = [run EXCEPT !.events[i] =
                            IF cached # NoResponse
                            THEN [e EXCEPT !.pc = "revalidate", !.cached = cached, !.answer = cached]
                            ELSE [e EXCEPT !.pc = "fetch"]]
              /\ last' = [op |-> "match", i |-> i, response |-> cached]
         ELSE /\ run' = [run EXCEPT !.events[i] =
                            [e EXCEPT !.pc = "done", !.answer = run.caches["./index.html"]]]
              /\ last' = [op |-> "match index.html", i |-> i, response |-> run.caches["./index.html"]]
      /\ UNCHANGED <<vfs, cwd, variables, history, clock, prev, nops, storage, settings>>

NetworkSettled_NetworkFirst ==
    /\ \E i \in 1..Len(run.events) :
         \E networkResponse \in NetworkResponses(nops + 1) \cup {Failed} :
           LET e == run.events[i]
               ok == networkResponse.status = 200
           IN
           /\ e.pc \in {"revalidate", "fetch"}
           /\ run' = [run EXCEPT !.events[i] =
                IF e.pc = "revalidate"
                THEN [e EXCEPT !.network = networkResponse,
                               !.answer = IF networkResponse = Failed THEN @ ELSE networkResponse,
                               !.cloned = IF ok THEN networkResponse ELSE @,
                               !.pc = IF ok THEN "put" ELSE "done"]
                ELSE IF networkResponse = Failed
                THEN [e EXCEPT !.network = networkResponse,
                               !.answer = IF e.request.mode = "navigate" THEN @ ELSE Offline,
                               !.pc = IF e.request.mode = "navigate" THEN "fallback" ELSE "done"]
                ELSE IF ~ok \/ networkResponse.type = "opaque"
                THEN [e EXCEPT !.network = networkResponse, !.answer = networkResponse,
                               !.pc = "done"]
                ELSE [e EXCEPT !.network = networkResponse, !.answer = networkResponse,
                               !.cloned = networkResponse, !.pc = "put"]]
           /\ last' = [op |-> "network", i |-> i, response |-> networkResponse]
    /\ nops' = nops + 1
    /\ UNCHANGED <<vfs, cwd, variables, history, clock, prev, storage, settings>>

\* a fetch(event.request) settles.  The background one of a request that was
\* answered from the cache (sw.js:59-67) clones a response of status 200 and
\* starts the write, and ignores a rejection; the answer stays the cached
\* response.  The one of a request without a match (sw.js:74-89) answers with
\* the response and starts the write unless the status is not 200 or the
\* response is opaque; a rejection is answered with index.html from the
\* caches for a navigation, with the 503 response otherwise.
NetworkSettled ==
    /\ \E i \in 1..Len(run.events) :
         \E networkResponse \in NetworkResponses(nops + 1) \cup {Failed} :
           LET e == run.events[i]
               ok == networkResponse.status = 200
           IN
           /\ e.pc \in {"revalidate", "fetch"}
           /\ run' = [run EXCEPT !.events[i] =
                IF e.pc = "revalidate"
                THEN [e EXCEPT !.network = networkResponse,
                               !.cloned = IF ok THEN networkResponse ELSE @,
                               !.pc = IF ok THEN "put" ELSE "done"]
                ELSE IF networkResponse = Failed
                THEN [e EXCEPT !.network = networkResponse,
                               !.answer = IF e.request.mode = "navigate" THEN @ ELSE Offline,
                               !.pc = IF e.request.mode = "navigate" THEN "fallback" ELSE "done"]
                ELSE IF ~ok \/ networkResponse.type = "opaque"
                THEN [e EXCEPT !.network = networkResponse, !.answer = networkResponse,
                               !.pc = "done"]
                ELSE [e EXCEPT !.network = networkResponse, !.answer = networkResponse,
                               !.cloned = networkResponse, !.pc = "put"]]
           /\ last' = [op |-> "network", i |-> i, response |-> networkResponse]
    /\ nops' = nops + 1
    /\ UNCHANGED <<vfs, cwd, variables, history, clock, prev, storage, settings>>

\* caches.open(CACHE_NAME).then(cache => cache.put(event.request, cloned))
\* (sw.js:63, 80): the clone replaces the entry of the request's URL
CachePut ==
    \E i \in 1..Len(run.events) :
      LET e == run.events[i] IN
      /\ e.pc = "put"
      /\ run' = [run EXCEPT !.caches[e.request.url] = e.cloned, !.events[i].pc = "done"]
      /\ last' = [op |-> "put", i |-> i, response |-> e.cloned]
      /\ UNCHANGED <<vfs, cwd, variables, history, clock, prev, nops, storage, settings>>

NextSW ==
    FetchListener \/ CacheMatched \/ NetworkSettled \/ CachePut

SpecSW == InitSW /\ [][NextSW]_vars

\* C30: a GET http(s) request with a cache match is answered with the cached
\* response, whatever has become of the background fetch (pending, a
\* response, a rejection) and of the write that follows it; and in both
\* branches a response is cloned for the cache, and written to it, only when
\* it is the network's response to the request and its status is 200.
C30_CachedAnswerAndOnly200Cached ==
    /\ \A i \in 1..Len(run.events) :
         LET e == run.events[i] IN
         /\ e.pc \in {"revalidate", "put", "done"} /\ e.cached # NoResponse
              => e.answer = e.cached
         /\ e.pc = "match" => e.answer = NoResponse
         /\ e.cloned # NoResponse => e.cloned = e.network /\ e.network.status = 200
    /\ last.op = "put" => /\ last.response.status = 200
                          /\ last.response = run.events[last.i].network
    /\ \A u \in Urls : run.caches[u] # NoResponse => run.caches[u].status = 200

\* a request answered from the cache whose background fetch brought a newer
\* response of status 200 that has been written over the cached one
C30_Witness ==
    /\ last.op = "put"
    /\ LET e == run.events[last.i] IN
       /\ e.cached # NoResponse
       /\ e.answer = e.cached
       /\ e.network.status = 200
       /\ e.network # e.cached
       /\ run.caches[e.request.url] = e.network

=============================================================================
